---- MODULE Spec2Model ----
(***************************************************************************)
(* Probe: the step-execution state machine of the test agent.              *)
(*                                                                         *)
(* The entry points of the repository are modelled, each as a sequential   *)
(* process whose awaits are the points where the environment (browser,     *)
(* oracle, session logger) answers or throws:                              *)
(*   - Agent.runScenario / executeStep / handleStepFailure  (Agent.ts)     *)
(*   - executeScenario of the run command                   (Executor.ts)  *)
(*   - SelfHealer.attemptRecovery                           (SelfHealer.ts)*)
(*   - Agent.selectHealingStrategy                          (Agent.ts)     *)
(*   - BugDetector.diagnose                                 (bugs/index.ts)*)
(*   - Agent.plan / executeActions, SessionLogger.logAction (Agent.ts)     *)
(*   - Validator.validate                                   (agent/index.ts)*)
(*   - ScenarioLoader.load of a step and its execution      (Executor.ts)  *)
(*   - Observer listeners, clearErrors and observe          (Observer.ts)  *)
(*   - Executor.execute                                     (Executor.ts)  *)
(* A behaviour exercises one entry point; the others stay "off".           *)
(***************************************************************************)
EXTENDS Integers, Sequences, FiniteSets, TLC

(***************************************************************************)
(* Bounds of the model                                                     *)
(***************************************************************************)
\* longest scenario explored
MaxSteps == 2
\* largest step.maxAttempts explored
MaxBudget == 3
\* longest action plan the oracle returns
MaxActions == 1
\* longest scenario given to executeScenario
MaxRunSteps == 3
\* most phrases in one error message
MaxPhrases == 2
\* most network errors in one observation
MaxNetErrors == 1
\* longest plan given to executeActions
MaxPlanLen == 2
\* most action descriptions recorded in one session
MaxRecorded == 11
\* most assertions declared by one step
MaxAssertions == 2
\* most page events and most observations explored in the observer's run
MaxEvents == 2
MaxObservations == 2
\* most attempts of a step explored in the observer's run
MaxObservedAttempts == 2

(***************************************************************************)
(* Program constants and input domains                                     *)
(***************************************************************************)
MAX_HEALING_ATTEMPTS == 3

\* step.maxAttempts is optional: Unset stands for undefined
Unset == 0

\* lastError before any failure (undefined); no message contains this phrase
NoError == {"undefined"}
\* the local bug of executeStep before any diagnosis (undefined)
NoBug == [step |-> -1]
\* no value returned yet
NoResult == "no_result"

\* An error message is modelled by the set of lower-cased key phrases it
\* contains; message.toLowerCase().includes(k) is membership of k.
ErrTexts == { {}, {"timeout"}, {"loading"}, {"locator"} }

\* A message as thrown is a set of phrases in the case they were written in;
\* String.prototype.toLowerCase maps each phrase to its lower-case form.
Lower(phrase) ==
    CASE phrase = "Timeout" -> "timeout"
      [] phrase = "NETWORK" -> "network"
      [] phrase = "Locator" -> "locator"
      [] phrase = "Not Found" -> "not found"
      [] phrase = "Uncaught" -> "uncaught"
      [] phrase = "TypeError" -> "typeerror"
      [] phrase = "Warning:" -> "warning:"
      [] phrase = "React" -> "react"
      [] phrase = "Aborted" -> "aborted"
      [] OTHER -> phrase

\* message.toLowerCase()
ToLowerCase(message) == { Lower(phrase) : phrase \in message }

\* errorMessage.includes(phrase): includes is case-sensitive
Includes(message, phrase) == phrase \in message

HealingStrategies ==
    {"wait_and_retry", "refresh_and_retry", "alternative_selector",
     "screenshot_analysis", "reset_to_known_state"}

\* ScenarioStep: maxAttempts is validated to be >= 1 when present
Steps == [maxAttempts : {Unset} \cup (1..MaxBudget), startUrl : BOOLEAN]

\* no step is being executed
NoStep == [maxAttempts |-> Unset, startUrl |-> FALSE]

\* Scenario.setup: whether preconditions / an auth session file are declared
Setups == [preconditions : BOOLEAN, sessionFile : BOOLEAN]

\* A Scenario is immutable. The model keeps the length of scenario.steps and
\* the setup; the fields of steps[i] are drawn when the loop reads steps[i].
Scenarios == [numSteps : 0..MaxSteps, setup : Setups]

VARIABLES
    scenario,        \* the Scenario passed to the entry point
    pc,              \* Agent: control position in runScenario / executeStep
    phase,           \* Agent: this.state.phase
    i,               \* runScenario: loop index over scenario.steps (0-based)
    step,            \* runScenario: const step = scenario.steps[i]
    currentStep,     \* Agent: this.state.currentStep
    healingAttempts, \* Agent: this.state.healingAttempts
    errors,          \* Agent: types of this.state.errors
    attempt,         \* executeStep: local attempt
    lastError,       \* executeStep: local lastError
    bug,             \* executeStep: local bug
    exc,             \* the exception in flight (NoError when none)
    plan,            \* executeStep: number of actions of the current plan
    actionIdx,       \* executeActions: actions of the plan already executed
    strategy,        \* handleStepFailure: strategy last selected
    stepResult,      \* StepExecutionResult returned by executeStep
    passedSteps,     \* runScenario: local passedSteps
    failedSteps,     \* runScenario: local failedSteps
    bugs,            \* runScenario: local bugs
    result,          \* ScenarioResult returned by runScenario
    hist,            \* history of the run (observation only, never read by an action's guard)
    rpc,             \* executeScenario: control position
    options,         \* executeScenario: RunOptions (bail)
    stepIdx,         \* executeScenario: position of the for-of loop (0-based)
    curStep,         \* executeScenario: const step of the loop
    stepPassed,      \* executeScenario: local stepPassed
    stepError,       \* executeScenario: local stepError
    rplan,           \* executeScenario: actions of the plan still to execute
    results,         \* executeScenario: local results
    hpc,             \* attemptRecovery: control position
    context,         \* attemptRecovery: RecoveryContext
    answers,         \* attemptRecovery: what browser and oracle answered during the call
    recovery,        \* attemptRecovery: RecoveryResult returned
    spc,             \* strategy selection: which selector was called
    selectArgs,      \* strategy selection: the error and the attempt number
    selected,        \* strategy selection: the HealingStrategy returned
    dpc,             \* BugDetector.diagnose: control position
    diagContext,     \* BugDetector.diagnose: DiagnosisContext
    heuristic,       \* BugDetector.diagnose: const heuristic
    oracleAnswer,    \* BugDetector.diagnose: what claude.diagnoseBug answered
    detected,        \* BugDetector.diagnose: DetectedBug returned
    apc,             \* Agent.plan / executeActions: control position
    actionHistory,   \* Agent: this.actionHistory
    previousActions, \* Agent.plan: previousActions given to the oracle
    planActions,     \* executeActions: plan.actions
    executed,        \* executeActions: the results of executor.execute so far
    logged,          \* executeActions: the results passed to logger.logAction
    lpc,             \* SessionLogger: control position
    recentActions,   \* SessionLogger: this.recentActions
    allActions,      \* SessionLogger: this.allActions
    vpc,             \* Validator.validate: control position
    request,         \* Validator.validate: ValidationRequest
    semantic,        \* Validator.validate: what claude.validateAction answered
    validation,      \* Validator.validate: ValidationResult returned
    ldpc,            \* ScenarioLoader: control position
    rawStep,         \* ScenarioLoader.load: a step of the parsed file
    loadErrors,      \* ScenarioLoader.validate: paths of the errors found
    loadedStep,      \* ScenarioLoader.load: the normalized ScenarioStep
    loadedBudget,    \* executeStep on the loaded step: const maxAttempts
    loadedAttempts,  \* executeStep on the loaded step: attempts begun
    opc,             \* Observer in the step loop: control position
    listenersInitialized, \* Observer: this.listenersInitialized
    heap,            \* the arrays allocated so far, by reference
    consoleErrors,   \* Observer: this.consoleErrors (a reference)
    networkErrors,   \* Observer: this.networkErrors (a reference)
    observations,    \* the PageObservations returned by observe so far
    stepNo,          \* runScenario: steps begun
    attemptNo,       \* executeStep: local attempt
    captured,        \* history: the errors captured since the step began
    obsHist,         \* history: events emitted, clearErrors calls
    epc,             \* Executor.execute: control position
    execAction,      \* Executor.execute: the PlannedAction
    execLocals,      \* Executor.execute: locals success, error, screenshot
    execResult,      \* Executor.execute: the ExecutedAction returned
    execHist         \* history: stages completed, what was thrown

agentVars ==
    <<pc, phase, i, step, currentStep, healingAttempts, errors, attempt, lastError, bug,
      exc, plan, actionIdx, strategy, stepResult, passedSteps, failedSteps,
      bugs, result, hist>>

runVars ==
    <<rpc, options, stepIdx, curStep, stepPassed, stepError, rplan, results>>

healVars == <<hpc, context, answers, recovery>>

selVars == <<spc, selectArgs, selected>>

detVars == <<dpc, diagContext, heuristic, oracleAnswer, detected>>

actVars ==
    <<apc, actionHistory, previousActions, planActions, executed, logged>>

logVars == <<lpc, recentActions, allActions>>

valVars == <<vpc, request, semantic, validation>>

loadVars ==
    <<ldpc, rawStep, loadErrors, loadedStep, loadedBudget, loadedAttempts>>

obsVars ==
    <<opc, listenersInitialized, heap, consoleErrors, networkErrors,
      observations, stepNo, attemptNo, captured, obsHist>>

execVars == <<epc, execAction, execLocals, execResult, execHist>>

vars ==
    <<scenario, agentVars, runVars, healVars, selVars, detVars, actVars, logVars,
      valVars, loadVars, obsVars, execVars>>

(***************************************************************************)
(* Agent.ts                                                                *)
(***************************************************************************)
NumSteps == scenario.numSteps

\* const maxAttempts = step.maxAttempts ?? MAX_HEALING_ATTEMPTS
MaxAttempts(st) ==
    IF st.maxAttempts = Unset THEN MAX_HEALING_ATTEMPTS ELSE st.maxAttempts

Budget == MaxAttempts(step)

\* the history kept for one executeStep call
FreshStepHist ==
    [healCalls |-> 0, healedAt |-> {}, healFailedAt |-> 0, healThrew |-> FALSE,
     diagCalls |-> 0, passAt |-> 0, attemptsBegun |-> 0]

\* envFailed: a browser or oracle call has thrown, an action has failed or
\* a validation has not passed (anything but a logger call going wrong)
InitHist ==
    [started |-> <<>>, abortCause |-> "none", sessionLoaded |-> FALSE,
     envFailed |-> FALSE, step |-> FreshStepHist]

\* createInitialState()
InitAgentState ==
    /\ phase = "idle"
    /\ currentStep = 0
    /\ healingAttempts = 0
    /\ errors = <<>>

InitLocals ==
    /\ i = 0
    /\ step = NoStep
    /\ attempt = 0
    /\ lastError = NoError
    /\ bug = NoBug
    /\ exc = NoError
    /\ plan = 0
    /\ actionIdx = 0
    /\ strategy = "none"
    /\ stepResult = NoResult
    /\ passedSteps = 0
    /\ failedSteps = 0
    /\ bugs = <<>>
    /\ result = NoResult
    /\ hist = InitHist

\* executeScenario is not running
RunOff ==
    /\ rpc = "off"
    /\ options = [bail |-> FALSE]
    /\ stepIdx = 0
    /\ curStep = NoStep
    /\ stepPassed = FALSE
    /\ stepError = NoError
    /\ rplan = 0
    /\ results = <<>>

\* attemptRecovery is not running
HealOff ==
    /\ hpc = "off"
    /\ context = NoResult
    /\ answers = NoResult
    /\ recovery = NoResult

\* no strategy selector is called
SelectOff ==
    /\ spc = "off"
    /\ selectArgs = NoResult
    /\ selected = NoResult

\* BugDetector.diagnose is not running
DetectOff ==
    /\ dpc = "off"
    /\ diagContext = NoResult
    /\ heuristic = NoResult
    /\ oracleAnswer = NoResult
    /\ detected = NoResult

\* Agent.plan / executeActions are not running
ActionsOff ==
    /\ apc = "off"
    /\ actionHistory = <<>>
    /\ previousActions = NoResult
    /\ planActions = <<>>
    /\ executed = <<>>
    /\ logged = <<>>

\* the SessionLogger does not exist
LoggerOff ==
    /\ lpc = "off"
    /\ recentActions = <<>>
    /\ allActions = <<>>

\* Validator.validate is not running
ValidatorOff ==
    /\ vpc = "off"
    /\ request = NoResult
    /\ semantic = NoResult
    /\ validation = NoResult

\* no scenario file is being loaded
LoaderOff ==
    /\ ldpc = "off"
    /\ rawStep = NoResult
    /\ loadErrors = <<>>
    /\ loadedStep = NoResult
    /\ loadedBudget = NoResult
    /\ loadedAttempts = 0

ObserverOff ==
    /\ opc = "off"
    /\ listenersInitialized = FALSE
    /\ heap = <<>>
    /\ consoleErrors = 0
    /\ networkErrors = 0
    /\ observations = <<>>
    /\ stepNo = 0
    /\ attemptNo = 0
    /\ captured = [console |-> <<>>, network |-> <<>>]
    /\ obsHist = [events |-> 0, clears |-> 0]

ExecutorOff ==
    /\ epc = "off"
    /\ execAction = NoResult
    /\ execLocals = NoResult
    /\ execResult = NoResult
    /\ execHist = NoResult

InitAgent ==
    /\ scenario \in Scenarios
    /\ pc = "idle"
    /\ InitAgentState
    /\ InitLocals
    /\ RunOff
    /\ HealOff
    /\ SelectOff
    /\ DetectOff
    /\ ActionsOff
    /\ LoggerOff
    /\ ValidatorOff
    /\ LoaderOff
    /\ ObserverOff
    /\ ExecutorOff

Note(field, value) == [hist EXCEPT !.step[field] = value]

\* the history after a browser or oracle call went wrong
EnvFailed(h) == [h EXCEPT !.envFailed = TRUE]

\* the message of an exception thrown by the session logger (a file-system
\* error): it contains none of the phrases the healing strategies look for
LoggerError == {}

\* variant: an exception raised while validating escapes the handler
AttemptThrowTarget_ValidationEscapes(ph) ==
    IF ph = "validating" THEN "scenarioCatch" ELSE "catch"

\* catch (error) of executeStep, lines 240-286: every exception of the try
\* block, whatever the phase it was raised in, lands in the handler
AttemptThrowTarget(ph) == "catch"

\* an exception e raised inside the try block of an attempt; the block's
\* locals (plan, the position in plan.actions) go out of scope
ThrowInAttempt(e) ==
    /\ pc' = AttemptThrowTarget(pc)
    /\ exc' = e
    /\ plan' = 0
    /\ actionIdx' = 0

\* the message of an exception that reaches runScenario's catch is only logged
Unexpected == {}

\* an exception that leaves executeStep (or is raised in runScenario's try
\* block) and is caught by runScenario's catch
ThrowToScenario(cause) ==
    /\ pc' = "scenarioCatch"
    /\ exc' = Unexpected
    /\ hist' = [hist EXCEPT !.abortCause = cause,
                             !.envFailed = @ \/ cause # "logger"]

\* runScenario, lines 127-142: reset the state, start the logging session
RunScenario ==
    /\ UNCHANGED <<runVars, healVars, selVars, detVars, actVars, logVars, valVars, loadVars, obsVars, execVars>>
    /\ pc = "idle"
    /\ phase' = "idle"
    /\ currentStep' = 0
    /\ healingAttempts' = 0
    /\ errors' = <<>>
    /\ \E ok \in BOOLEAN :
          IF ok
          THEN /\ pc' = "setup"
               /\ hist' = hist
          ELSE \* logger.startSession() is outside the try block
               /\ pc' = "threw"
               /\ hist' = [hist EXCEPT !.abortCause = "logger"]
    /\ UNCHANGED <<scenario, i, step, attempt, lastError, bug, exc, plan,
                   actionIdx, strategy, stepResult, passedSteps, failedSteps,
                   bugs, result>>

\* runScenario lines 145-148 and handleSetup lines 490-507
Setup ==
    /\ UNCHANGED <<runVars, healVars, selVars, detVars, actVars, logVars, valVars, loadVars, obsVars, execVars>>
    /\ pc = "setup"
    /\ IF scenario.setup.preconditions /\ scenario.setup.sessionFile
       THEN \E ok \in BOOLEAN :
              IF ok
              THEN /\ pc' = "for"
                   /\ hist' = [hist EXCEPT !.sessionLoaded = TRUE]
                   /\ exc' = exc
              ELSE ThrowToScenario("setup")
       ELSE /\ pc' = "for"
            /\ UNCHANGED <<hist, exc>>
    /\ UNCHANGED <<scenario, phase, i, step, currentStep, healingAttempts,
                   errors, attempt, lastError, bug, plan, actionIdx, strategy,
                   stepResult, passedSteps, failedSteps, bugs, result>>

\* runScenario lines 151-159 and executeStep lines 229-235
StepBegin ==
    /\ UNCHANGED <<runVars, healVars, selVars, detVars, actVars, logVars, valVars, loadVars, obsVars, execVars>>
    /\ pc = "for"
    /\ i < NumSteps
    /\ step' \in Steps
    /\ currentStep' = i
    /\ healingAttempts' = 0
    /\ attempt' = 0
    /\ lastError' = NoError
    /\ bug' = NoBug
    /\ \E ok \in BOOLEAN :
          IF ok
          THEN /\ pc' = "while"
               /\ exc' = exc
               /\ hist' = [hist EXCEPT !.started = Append(@, i),
                                       !.step = FreshStepHist]
          ELSE \* logger.startStep() is outside the try block of executeStep
               /\ pc' = "scenarioCatch"
               /\ exc' = Unexpected
               /\ hist' = [hist EXCEPT !.started = Append(@, i),
                                       !.step = FreshStepHist,
                                       !.abortCause = "logger"]
    /\ UNCHANGED <<scenario, phase, i, errors, plan, actionIdx, strategy,
                   stepResult, passedSteps, failedSteps, bugs, result>>

\* executeStep lines 237-248: next iteration of the while loop
AttemptBegin ==
    /\ UNCHANGED <<runVars, healVars, selVars, detVars, actVars, logVars, valVars, loadVars, obsVars, execVars>>
    /\ pc = "while"
    /\ attempt < Budget
    /\ attempt' = attempt + 1
    /\ \E navOk \in BOOLEAN :
          IF navOk \/ ~step.startUrl
          THEN /\ phase' = "observing"
               /\ pc' = "observing"
               /\ UNCHANGED <<exc, plan, actionIdx>>
               /\ hist' = Note("attemptsBegun", hist.step.attemptsBegun + 1)
          ELSE \* browser.navigate(step.startUrl) throws
               /\ \E e \in ErrTexts : ThrowInAttempt(e)
               /\ phase' = phase
               /\ hist' = EnvFailed(Note("attemptsBegun",
                                          hist.step.attemptsBegun + 1))
    /\ UNCHANGED <<scenario, i, step, currentStep, healingAttempts, errors,
                   lastError, bug, strategy, stepResult, passedSteps,
                   failedSteps, bugs, result>>

\* variant: the failure result is returned without the diagnosed bug
FailureResult_WithoutBug(n, error, b) ==
    [success |-> FALSE, attempts |-> n, error |-> error, bug |-> NoBug]

\* return { success: false, attempts: attempt, error: lastError, bug }
FailureResult(n, error, b) ==
    [success |-> FALSE, attempts |-> n, error |-> error, bug |-> b]

\* executeStep lines 310-311: the while loop is left without success
StepExhausted ==
    /\ UNCHANGED <<runVars, healVars, selVars, detVars, actVars, logVars, valVars, loadVars, obsVars, execVars>>
    /\ pc = "while"
    /\ ~(attempt < Budget)
    /\ phase' = "failed"
    /\ stepResult' = FailureResult(attempt, lastError, bug)
    /\ pc' = "stepReturned"
    /\ UNCHANGED <<scenario, i, step, currentStep, healingAttempts, errors,
                   attempt, lastError, bug, exc, plan, actionIdx, strategy,
                   passedSteps, failedSteps, bugs, result, hist>>

\* executeStep lines 248-252: waitForStable, observe, logObservation
Observe ==
    /\ UNCHANGED <<runVars, healVars, selVars, detVars, actVars, logVars, valVars, loadVars, obsVars, execVars>>
    /\ pc = "observing"
    /\ \E out \in {"ok", "throws", "logThrows"} :
          CASE out = "ok" ->
                 /\ phase' = "planning"
                 /\ pc' = "planning"
                 /\ UNCHANGED <<exc, plan, actionIdx, hist>>
            [] out = "throws" ->
                 \* waitForStable or observe throws
                 /\ \E e \in ErrTexts : ThrowInAttempt(e)
                 /\ phase' = phase
                 /\ hist' = EnvFailed(hist)
            [] out = "logThrows" ->
                 \* logger.logObservation throws inside the try block
                 /\ ThrowInAttempt(LoggerError)
                 /\ phase' = phase
                 /\ hist' = hist
    /\ UNCHANGED <<scenario, i, step, currentStep, healingAttempts, errors,
                   attempt, lastError, bug, strategy, stepResult, passedSteps,
                   failedSteps, bugs, result>>

\* executeStep lines 255-261: plan, logPlan
Plan ==
    /\ UNCHANGED <<runVars, healVars, selVars, detVars, actVars, logVars, valVars, loadVars, obsVars, execVars>>
    /\ pc = "planning"
    /\ \E out \in {"ok", "throws", "logThrows"} :
          CASE out = "ok" ->
                 /\ \E n \in 0..MaxActions : plan' = n
                 /\ actionIdx' = 0
                 /\ phase' = "executing"
                 /\ pc' = "executing"
                 /\ UNCHANGED <<exc, hist>>
            [] out = "throws" ->
                 \* claude.planActions throws
                 /\ \E e \in ErrTexts : ThrowInAttempt(e)
                 /\ phase' = phase
                 /\ hist' = EnvFailed(hist)
            [] out = "logThrows" ->
                 \* logger.logPlan throws inside the try block
                 /\ ThrowInAttempt(LoggerError)
                 /\ phase' = phase
                 /\ hist' = hist
    /\ UNCHANGED <<scenario, i, step, currentStep, healingAttempts, errors,
                   attempt, lastError, bug, strategy, stepResult, passedSteps,
                   failedSteps, bugs, result>>

\* executeActions lines 341-353: one iteration of the loop over plan.actions
ExecuteAction ==
    /\ UNCHANGED <<runVars, healVars, selVars, detVars, actVars, logVars, valVars, loadVars, obsVars, execVars>>
    /\ pc = "executing"
    /\ actionIdx < plan
    /\ \E success \in BOOLEAN, logOk \in BOOLEAN :
          CASE success /\ logOk ->
                 /\ actionIdx' = actionIdx + 1
                 /\ UNCHANGED <<pc, exc, plan, hist>>
            [] ~logOk ->
                 \* logger.logAction throws before result.success is read
                 /\ ThrowInAttempt(LoggerError)
                 /\ hist' = IF success THEN hist ELSE EnvFailed(hist)
            [] ~success /\ logOk ->
                 \* result.success is false: throw new Error(result.error)
                 /\ \E e \in ErrTexts : ThrowInAttempt(e)
                 /\ hist' = EnvFailed(hist)
    /\ UNCHANGED <<scenario, phase, i, step, currentStep, healingAttempts,
                   errors, attempt, lastError, bug, strategy, stepResult,
                   passedSteps, failedSteps, bugs, result>>

\* executeStep lines 262-268: all actions done, wait for the page to settle
ExecuteDone ==
    /\ UNCHANGED <<runVars, healVars, selVars, detVars, actVars, logVars, valVars, loadVars, obsVars, execVars>>
    /\ pc = "executing"
    /\ actionIdx = plan
    /\ \E ok \in BOOLEAN :
          IF ok
          THEN /\ phase' = "validating"
               /\ pc' = "validating"
               /\ UNCHANGED <<exc, plan, actionIdx, hist>>
          ELSE \* observer.waitForStable throws
               /\ \E e \in ErrTexts : ThrowInAttempt(e)
               /\ phase' = phase
               /\ hist' = EnvFailed(hist)
    /\ UNCHANGED <<scenario, i, step, currentStep, healingAttempts, errors,
                   attempt, lastError, bug, strategy, stepResult, passedSteps,
                   failedSteps, bugs, result>>

\* variant: attempts counted from zero
SuccessResult_ZeroBased(n) ==
    [success |-> TRUE, attempts |-> n - 1, error |-> NoError, bug |-> NoBug]

\* return { success: true, attempts: attempt }, line 280
SuccessResult(n) ==
    [success |-> TRUE, attempts |-> n, error |-> NoError, bug |-> NoBug]

\* executeStep lines 269-285: observe, validate, return or throw
Validate ==
    /\ UNCHANGED <<runVars, healVars, selVars, detVars, actVars, logVars, valVars, loadVars, obsVars, execVars>>
    /\ pc = "validating"
    /\ \E out \in {"passed", "failed", "throw"} :
          IF out = "passed"
          THEN /\ phase' = "idle"
               /\ stepResult' = SuccessResult(attempt)
               /\ pc' = "stepReturned"
               /\ hist' = Note("passAt", attempt)
               /\ exc' = exc
               /\ plan' = 0
               /\ actionIdx' = 0
          ELSE \* validation.reason is thrown, or observe/validate throws
               /\ \E e \in ErrTexts : ThrowInAttempt(e)
               /\ UNCHANGED <<phase, stepResult>>
               /\ hist' = EnvFailed(hist)
    /\ UNCHANGED <<scenario, i, step, currentStep, healingAttempts, errors,
                   attempt, lastError, bug, strategy, passedSteps, failedSteps,
                   bugs, result>>

\* variant: healing is also tried after the last attempt
ShouldHeal_Inclusive(n, budget) == n <= budget

\* if (attempt < maxAttempts), line 291
ShouldHeal(n, budget) == n < budget

\* executeStep lines 286-294 and 302-303: the catch handler up to the choice
\* between healing and diagnosis
Catch ==
    /\ UNCHANGED <<runVars, healVars, selVars, detVars, actVars, logVars, valVars, loadVars, obsVars, execVars>>
    /\ pc = "catch"
    /\ lastError' = exc
    /\ \E logOk \in BOOLEAN :
          IF logOk
          THEN /\ exc' = NoError
               /\ hist' = hist
               /\ IF ShouldHeal(attempt, Budget)
                  THEN /\ phase' = "healing"
                       /\ healingAttempts' = healingAttempts + 1
                       /\ pc' = "healing"
                  ELSE /\ pc' = "diagnose"
                       /\ UNCHANGED <<phase, healingAttempts>>
          ELSE \* logger.logError throws inside the handler
               /\ ThrowToScenario("logger")
               /\ UNCHANGED <<phase, healingAttempts>>
    /\ UNCHANGED <<scenario, i, step, currentStep, errors, attempt, bug, plan,
                   actionIdx, strategy, stepResult, passedSteps, failedSteps,
                   bugs, result>>

\* selectHealingStrategy, lines 377-406
SelectHealingStrategy(error, n) ==
    LET errorMessage == ToLowerCase(error)
    IN  IF n = 1 THEN "wait_and_retry"
        ELSE IF n = 2
        THEN IF \/ Includes(errorMessage, "timeout")
                \/ Includes(errorMessage, "not found")
                \/ Includes(errorMessage, "no element")
             THEN "alternative_selector"
             ELSE IF \/ Includes(errorMessage, "network")
                     \/ Includes(errorMessage, "loading")
                     \/ Includes(errorMessage, "hydrat")
             THEN "refresh_and_retry"
             ELSE "screenshot_analysis"
        ELSE "reset_to_known_state"

\* a call that returned value v / a call that threw
Returned(v) == [returned |-> TRUE, value |-> v]
Threw == [returned |-> FALSE, value |-> FALSE]

\* variant: handleStepFailure without its try/catch
HandleStepFailure_NoCatch(strat, threw) ==
    IF threw THEN Threw ELSE Returned(strat \in HealingStrategies)

\* handleStepFailure lines 418-457: every strategy returns true unless one of
\* its browser/observer calls throws, and the catch turns that into false
HandleStepFailure(strat, threw) ==
    IF strat \in HealingStrategies THEN Returned(~threw) ELSE Returned(FALSE)

\* executeStep lines 295-297 with handleStepFailure lines 411-458
Heal ==
    /\ UNCHANGED <<runVars, healVars, selVars, detVars, actVars, logVars, valVars, loadVars, obsVars, execVars>>
    /\ pc = "healing"
    /\ strategy' = SelectHealingStrategy(lastError, attempt)
    /\ \E threw \in BOOLEAN :
          LET call == HandleStepFailure(strategy', threw)
              healingSuccess == call.value
              h == [hist.step EXCEPT !.healCalls = @ + 1,
                                     !.healedAt = @ \cup {attempt},
                                     !.healThrew = threw]
              failed == hist.envFailed \/ threw
          IN  IF ~call.returned
              THEN /\ pc' = "scenarioCatch"
                   /\ exc' = Unexpected
                   /\ hist' = [hist EXCEPT !.step = h, !.abortCause = "healing",
                                           !.envFailed = failed]
              ELSE /\ exc' = exc
                   /\ IF healingSuccess
                      THEN /\ pc' = "while"
                           /\ hist' = [hist EXCEPT !.step = h,
                                                   !.envFailed = failed]
                      ELSE /\ pc' = "diagnose"
                           /\ hist' = [hist EXCEPT
                                 !.step = [h EXCEPT !.healFailedAt = attempt],
                                 !.envFailed = failed]
    /\ UNCHANGED <<scenario, phase, i, step, currentStep, healingAttempts,
                   errors, attempt, lastError, bug, plan, actionIdx,
                   stepResult, passedSteps, failedSteps, bugs, result>>

\* the DetectedBug returned by diagnoseBug, lines 463-485, identified by the
\* step it was diagnosed for
DiagnosedBug(k) == [step |-> k]

\* executeStep lines 299-300 and 304-305: observe, diagnoseBug; the loop
\* condition is evaluated next in both branches
Diagnose ==
    /\ UNCHANGED <<runVars, healVars, selVars, detVars, actVars, logVars, valVars, loadVars, obsVars, execVars>>
    /\ pc = "diagnose"
    /\ \E out \in {"ok", "observeThrows", "oracleThrows"} :
          IF out = "ok"
          THEN /\ bug' = DiagnosedBug(i)
               /\ pc' = "while"
               /\ exc' = exc
               /\ hist' = Note("diagCalls", hist.step.diagCalls + 1)
          ELSE /\ bug' = bug
               /\ pc' = "scenarioCatch"
               /\ exc' = Unexpected
               /\ hist' = [hist EXCEPT
                             !.abortCause = "diagnosis",
                             !.envFailed = TRUE,
                             !.step.diagCalls =
                                 IF out = "oracleThrows" THEN @ + 1 ELSE @]
    /\ UNCHANGED <<scenario, phase, i, step, currentStep, healingAttempts,
                   errors, attempt, lastError, plan, actionIdx, strategy,
                   stepResult, passedSteps, failedSteps, bugs, result>>

\* executeStep has returned: its locals and the loop body's step are gone
LeaveStep ==
    /\ step' = NoStep
    /\ attempt' = 0
    /\ lastError' = NoError
    /\ bug' = NoBug
    /\ strategy' = "none"
    /\ stepResult' = NoResult

\* variant: a failed step's bug is recorded without counting the step as
\* failed
HandleResult_BugWithoutFailure ==
    /\ UNCHANGED <<runVars, healVars, selVars, detVars, actVars, logVars, valVars, loadVars, obsVars, execVars>>
    /\ pc = "stepReturned"
    /\ IF stepResult.success
       THEN /\ passedSteps' = passedSteps + 1
            /\ UNCHANGED <<failedSteps, bugs>>
       ELSE /\ failedSteps' = (IF stepResult.bug # NoBug
                               THEN failedSteps ELSE failedSteps + 1)
            /\ bugs' = IF stepResult.bug # NoBug
                       THEN Append(bugs, stepResult.bug) ELSE bugs
            /\ passedSteps' = passedSteps
    /\ \E logOk \in BOOLEAN :
          IF logOk \/ (~stepResult.success /\ stepResult.bug = NoBug)
          THEN /\ errors' = IF ~stepResult.success /\ stepResult.attempts >= Budget
                            THEN Append(errors, "action_failed") ELSE errors
               /\ i' = i + 1
               /\ pc' = "for"
               /\ exc' = exc
               /\ hist' = [hist EXCEPT !.step = FreshStepHist]
          ELSE \* logger.logSuccess / logger.logBug throws
               /\ pc' = "scenarioCatch"
               /\ exc' = Unexpected
               /\ hist' = [hist EXCEPT !.abortCause = "logger",
                                       !.step = FreshStepHist]
               /\ UNCHANGED <<errors, i>>
    /\ LeaveStep
    /\ UNCHANGED <<scenario, phase, currentStep, healingAttempts, plan,
                   actionIdx, result>>

\* runScenario lines 161-183: account for the step's result, next step
HandleResult ==
    /\ UNCHANGED <<runVars, healVars, selVars, detVars, actVars, logVars, valVars, loadVars, obsVars, execVars>>
    /\ pc = "stepReturned"
    /\ IF stepResult.success
       THEN /\ passedSteps' = passedSteps + 1
            /\ UNCHANGED <<failedSteps, bugs>>
       ELSE /\ failedSteps' = failedSteps + 1
            /\ bugs' = IF stepResult.bug # NoBug
                       THEN Append(bugs, stepResult.bug) ELSE bugs
            /\ passedSteps' = passedSteps
    /\ \E logOk \in BOOLEAN :
          IF logOk \/ (~stepResult.success /\ stepResult.bug = NoBug)
          THEN /\ errors' = IF ~stepResult.success /\ stepResult.attempts >= Budget
                            THEN Append(errors, "action_failed") ELSE errors
               /\ i' = i + 1
               /\ pc' = "for"
               /\ exc' = exc
               /\ hist' = [hist EXCEPT !.step = FreshStepHist]
          ELSE \* logger.logSuccess / logger.logBug throws
               /\ pc' = "scenarioCatch"
               /\ exc' = Unexpected
               /\ hist' = [hist EXCEPT !.abortCause = "logger",
                                       !.step = FreshStepHist]
               /\ UNCHANGED <<errors, i>>
    /\ LeaveStep
    /\ UNCHANGED <<scenario, phase, currentStep, healingAttempts, plan,
                   actionIdx, result>>

\* runScenario line 185: the for loop is left normally
ForExit ==
    /\ UNCHANGED <<runVars, healVars, selVars, detVars, actVars, logVars, valVars, loadVars, obsVars, execVars>>
    /\ pc = "for"
    /\ ~(i < NumSteps)
    /\ phase' = IF failedSteps = 0 THEN "complete" ELSE "failed"
    /\ pc' = "build"
    /\ UNCHANGED <<scenario, i, step, currentStep, healingAttempts, errors,
                   attempt, lastError, bug, exc, plan, actionIdx, strategy,
                   stepResult, passedSteps, failedSteps, bugs, result, hist>>

\* runScenario lines 186-196: catch of the scenario's try block; the frames
\* of the loop body and of executeStep have been unwound
ScenarioCatch ==
    /\ UNCHANGED <<runVars, healVars, selVars, detVars, actVars, logVars, valVars, loadVars, obsVars, execVars>>
    /\ pc = "scenarioCatch"
    /\ phase' = "failed"
    /\ errors' = Append(errors, "unexpected")
    /\ exc' = NoError
    /\ plan' = 0
    /\ actionIdx' = 0
    /\ LeaveStep
    /\ \E logOk \in BOOLEAN :
          IF logOk
          THEN /\ pc' = "build"
               /\ hist' = [hist EXCEPT !.step = FreshStepHist]
          ELSE /\ pc' = "threw"
               /\ hist' = [hist EXCEPT !.abortCause = "logger",
                                       !.step = FreshStepHist]
    /\ UNCHANGED <<scenario, i, currentStep, healingAttempts, passedSteps,
                   failedSteps, bugs, result>>

\* the ScenarioResult of lines 201-209
ScenarioResult(nPassed, nFailed, bs) ==
    [success |-> nFailed = 0, steps |-> NumSteps, passed |-> nPassed,
     failed |-> nFailed, bugs |-> bs]

\* runScenario lines 198-223: build the result, end the session, return
Build ==
    /\ UNCHANGED <<runVars, healVars, selVars, detVars, actVars, logVars, valVars, loadVars, obsVars, execVars>>
    /\ pc = "build"
    /\ \E ok \in BOOLEAN :
          IF ok
          THEN /\ result' = ScenarioResult(passedSteps, failedSteps, bugs)
               /\ pc' = "done"
               /\ hist' = hist
          ELSE \* logger.endSession throws
               /\ result' = result
               /\ pc' = "threw"
               /\ hist' = [hist EXCEPT !.abortCause = "logger"]
    /\ UNCHANGED <<scenario, phase, i, step, currentStep, healingAttempts,
                   errors, attempt, lastError, bug, exc, plan, actionIdx,
                   strategy, stepResult, passedSteps, failedSteps, bugs>>

NextAgent ==
    \/ RunScenario
    \/ Setup
    \/ StepBegin
    \/ AttemptBegin
    \/ StepExhausted
    \/ Observe
    \/ Plan
    \/ ExecuteAction
    \/ ExecuteDone
    \/ Validate
    \/ Catch
    \/ Heal
    \/ Diagnose
    \/ HandleResult
    \/ ForExit
    \/ ScenarioCatch
    \/ Build


(***************************************************************************)
(* executeScenario of the run command                                      *)
(***************************************************************************)
\* executeScenario does not read scenario.setup
NoSetup == [preconditions |-> FALSE, sessionFile |-> FALSE]

RunScenarios == [numSteps : 0..MaxRunSteps, setup : {NoSetup}]

InitRun ==
    /\ scenario \in RunScenarios
    /\ pc = "off"
    /\ InitAgentState
    /\ InitLocals
    /\ HealOff
    /\ SelectOff
    /\ DetectOff
    /\ ActionsOff
    /\ LoggerOff
    /\ ValidatorOff
    /\ LoaderOff
    /\ ObserverOff
    /\ ExecutorOff
    /\ rpc = "idle"
    /\ options \in [bail : BOOLEAN]
    /\ stepIdx = 0
    /\ curStep = NoStep
    /\ stepPassed = FALSE
    /\ stepError = NoError
    /\ rplan = 0
    /\ results = <<>>

\* executeScenario lines 476-487: navigate to the start URL
ExecuteScenario ==
    /\ UNCHANGED <<scenario, agentVars, healVars, selVars, detVars, actVars, logVars, valVars, loadVars, obsVars, execVars>>
    /\ rpc = "idle"
    /\ \E ok \in BOOLEAN : rpc' = IF ok THEN "for" ELSE "threw"
    /\ UNCHANGED <<options, stepIdx, curStep, stepPassed, stepError, rplan,
                   results>>

\* executeScenario lines 489-494: next step of the for-of loop
RunStepBegin ==
    /\ UNCHANGED <<scenario, agentVars, healVars, selVars, detVars, actVars, logVars, valVars, loadVars, obsVars, execVars>>
    /\ rpc = "for"
    /\ stepIdx < NumSteps
    /\ curStep' \in Steps
    /\ stepPassed' = FALSE
    /\ stepError' = NoError
    /\ \E ok \in BOOLEAN :
          \* logger.startStep() is outside the try block
          rpc' = IF ok THEN "try" ELSE "threw"
    /\ UNCHANGED <<options, stepIdx, rplan, results>>

\* executeScenario lines 497-516: navigate, waitForStable, observe,
\* logObservation, planActions, logPlan
RunObservePlan ==
    /\ UNCHANGED <<scenario, agentVars, healVars, selVars, detVars, actVars, logVars, valVars, loadVars, obsVars, execVars>>
    /\ rpc = "try"
    /\ \E ok \in BOOLEAN :
          IF ok
          THEN /\ \E n \in 0..MaxActions : rplan' = n
               /\ rpc' = "actions"
               /\ stepError' = stepError
          ELSE /\ \E e \in ErrTexts : stepError' = e
               /\ rpc' = "catch"
               /\ rplan' = 0
    /\ UNCHANGED <<options, stepIdx, curStep, stepPassed, results>>

\* executeScenario lines 519-526: one planned action
RunAction ==
    /\ UNCHANGED <<scenario, agentVars, healVars, selVars, detVars, actVars, logVars, valVars, loadVars, obsVars, execVars>>
    /\ rpc = "actions"
    /\ rplan > 0
    /\ \E success \in BOOLEAN, logOk \in BOOLEAN :
          IF success /\ logOk
          THEN /\ rplan' = rplan - 1
               /\ UNCHANGED <<rpc, stepError>>
          ELSE /\ \E e \in ErrTexts : stepError' = e
               /\ rpc' = "catch"
               /\ rplan' = 0
    /\ UNCHANGED <<options, stepIdx, curStep, stepPassed, results>>

\* executeScenario lines 528-548: settle, observe, validate, logSuccess
RunValidate ==
    /\ UNCHANGED <<scenario, agentVars, healVars, selVars, detVars, actVars, logVars, valVars, loadVars, obsVars, execVars>>
    /\ rpc = "actions"
    /\ rplan = 0
    /\ \E out \in {"passed", "failed", "throw"}, logOk \in BOOLEAN :
          IF out = "passed"
          THEN /\ stepPassed' = TRUE
               /\ IF logOk
                  THEN /\ rpc' = "push"
                       /\ stepError' = stepError
                  ELSE \* logger.logSuccess throws after stepPassed = true
                       /\ \E e \in ErrTexts : stepError' = e
                       /\ rpc' = "catch"
          ELSE /\ stepPassed' = stepPassed
               /\ \E e \in ErrTexts : stepError' = e
               /\ rpc' = "catch"
    /\ UNCHANGED <<options, stepIdx, curStep, rplan, results>>

\* executeScenario lines 549-552: the catch of the step's try block
RunCatch ==
    /\ UNCHANGED <<scenario, agentVars, healVars, selVars, detVars, actVars, logVars, valVars, loadVars, obsVars, execVars>>
    /\ rpc = "catch"
    /\ \E logOk \in BOOLEAN : rpc' = IF logOk THEN "push" ELSE "threw"
    /\ UNCHANGED <<options, stepIdx, curStep, stepPassed, stepError, rplan,
                   results>>

\* the StepResult of lines 555-560; tries is the number of attempts
\* executeScenario made for the step (its loop body has no retry)
StepResult(k, st, passed) ==
    [index |-> k, maxAttempts |-> st.maxAttempts, passed |-> passed, tries |-> 1]

\* variant: bail stops after any step
BailNow_AnyStep(bail, passed) == bail

\* if (options.bail && !stepPassed), line 566
BailNow(bail, passed) == bail /\ ~passed

\* executeScenario lines 554-569: record the result, bail or go on
RunPush ==
    /\ UNCHANGED <<scenario, agentVars, healVars, selVars, detVars, actVars, logVars, valVars, loadVars, obsVars, execVars>>
    /\ rpc = "push"
    /\ results' = Append(results, StepResult(stepIdx, curStep, stepPassed))
    /\ IF BailNow(options.bail, stepPassed)
       THEN /\ rpc' = "returned"
            /\ stepIdx' = stepIdx
       ELSE /\ rpc' = "for"
            /\ stepIdx' = stepIdx + 1
    /\ curStep' = NoStep
    /\ stepPassed' = FALSE
    /\ stepError' = NoError
    /\ UNCHANGED <<options, rplan>>

\* executeScenario lines 571-572: the loop is exhausted
RunReturn ==
    /\ UNCHANGED <<scenario, agentVars, healVars, selVars, detVars, actVars, logVars, valVars, loadVars, obsVars, execVars>>
    /\ rpc = "for"
    /\ ~(stepIdx < NumSteps)
    /\ rpc' = "returned"
    /\ UNCHANGED <<options, stepIdx, curStep, stepPassed, stepError, rplan,
                   results>>

NextRun ==
    \/ ExecuteScenario
    \/ RunStepBegin
    \/ RunObservePlan
    \/ RunAction
    \/ RunValidate
    \/ RunCatch
    \/ RunPush
    \/ RunReturn

SpecRun == InitRun /\ [][NextRun]_vars

(***************************************************************************)
(* SelfHealer.ts                                                           *)
(***************************************************************************)
\* confidence values are modelled in tenths; recoveryPlan.confidence < 0.5
HalfConfidence == 5

Confidences == {0, 4, 5, 9}

\* an ActionPlan as far as the healer reads it
Plans == [actions : 0..MaxActions, confidence : Confidences]

\* updatedPlan is absent
NoPlan == [actions |-> -1, confidence |-> -1]

\* RecoveryContext: the strategy, the error and whether failedAction is given
Contexts ==
    [strategy : HealingStrategies, error : ErrTexts, failedAction : BOOLEAN]

\* What the collaborators answer during one attemptRecovery call:
\*   netIdleThrows  browser.waitForLoadState('networkidle') times out
\*   loading        how many of the two loading-indicator checks find one
\*   thrown         the error thrown by another awaited call (NoError: none)
\*   plan           the plan claude.planActions returns
Answers ==
    [netIdleThrows : BOOLEAN, loading : 0..2,
     thrown : {NoError} \cup ErrTexts, plan : Plans]

InitHeal ==
    /\ scenario = [numSteps |-> 0, setup |-> [preconditions |-> FALSE,
                                               sessionFile |-> FALSE]]
    /\ pc = "off"
    /\ InitAgentState
    /\ InitLocals
    /\ RunOff
    /\ SelectOff
    /\ DetectOff
    /\ ActionsOff
    /\ LoggerOff
    /\ ValidatorOff
    /\ LoaderOff
    /\ ObserverOff
    /\ ExecutorOff
    /\ hpc = "call"
    /\ context \in Contexts
    /\ answers = NoResult
    /\ recovery = NoResult

\* a RecoveryResult
RecoveryResult(success, updatedPlan, newObservation, message) ==
    [success |-> success, updatedPlan |-> updatedPlan,
     newObservation |-> newObservation, message |-> message]

Message(text, detail) == [text |-> text, detail |-> detail]

\* variant: loading indicators still present at the re-check are a failure
WaitAndRetry_FailsWhileLoading(ctx, ans) ==
    RecoveryResult(ans.loading < 2, NoPlan, "fresh",
                   Message("Waited for page to stabilize", {}))

\* waitAndRetry lines 135-168: the network-idle timeout is swallowed, the
\* loading checks only add waits, the result is success
WaitAndRetry(ctx, ans) ==
    RecoveryResult(TRUE, NoPlan, "fresh", Message("Waited for page to stabilize", {}))

\* refreshAndRetry lines 174-195: here waitForLoadState is not guarded
RefreshAndRetry(ctx, ans) ==
    RecoveryResult(TRUE, NoPlan, "fresh", Message("Page refreshed and stabilized", {}))

\* variant: an empty alternative plan is returned as a success
FindAlternativeSelector_AcceptsEmptyPlan(ctx, ans) ==
    RecoveryResult(TRUE, ans.plan, "fresh", Message("Found alternative approach", {}))

\* findAlternativeSelector lines 201-240
FindAlternativeSelector(ctx, ans) ==
    IF ans.plan.actions = 0
    THEN RecoveryResult(FALSE, NoPlan, "fresh",
                        Message("Claude could not find an alternative approach", {}))
    ELSE RecoveryResult(TRUE, ans.plan, "fresh",
                        Message("Found alternative approach", {}))

\* variant: a confidence of exactly 0.5 with no action is a failure too
AnalyzeScreenshot_FailsAtHalf(ctx, ans) ==
    IF ans.plan.actions = 0 /\ ans.plan.confidence <= HalfConfidence
    THEN RecoveryResult(FALSE, NoPlan, "fresh",
                        Message("Screenshot analysis could not determine recovery path", {}))
    ELSE RecoveryResult(TRUE, ans.plan, "fresh", Message("Screenshot analysis", {}))

\* analyzeScreenshot lines 246-294
AnalyzeScreenshot(ctx, ans) ==
    IF ans.plan.actions = 0 /\ ans.plan.confidence < HalfConfidence
    THEN RecoveryResult(FALSE, NoPlan, "fresh",
                        Message("Screenshot analysis could not determine recovery path", {}))
    ELSE RecoveryResult(TRUE, ans.plan, "fresh", Message("Screenshot analysis", {}))

\* resetToKnownState lines 300-331: dismissModals swallows its own errors
ResetToKnownState(ctx, ans) ==
    RecoveryResult(TRUE, NoPlan, "fresh", Message("Reset to known state", {}))

\* whether an awaited call of the strategy throws out of the strategy:
\* in refreshAndRetry and resetToKnownState the network-idle wait is unguarded
StrategyThrows(ctx, ans) ==
    IF ans.thrown # NoError THEN ans.thrown
    ELSE IF ans.netIdleThrows
            /\ ctx.strategy \in {"refresh_and_retry", "reset_to_known_state"}
    THEN {"timeout"}
    ELSE NoError

\* the switch of attemptRecovery, lines 100-121
Dispatch(ctx, ans) ==
    CASE ctx.strategy = "wait_and_retry" -> WaitAndRetry(ctx, ans)
      [] ctx.strategy = "refresh_and_retry" -> RefreshAndRetry(ctx, ans)
      [] ctx.strategy = "alternative_selector" -> FindAlternativeSelector(ctx, ans)
      [] ctx.strategy = "screenshot_analysis" -> AnalyzeScreenshot(ctx, ans)
      [] ctx.strategy = "reset_to_known_state" -> ResetToKnownState(ctx, ans)
      [] OTHER -> RecoveryResult(FALSE, NoPlan, "none",
                                 Message("Unknown healing strategy", {}))

\* variant: attemptRecovery without its try/catch
RecoveryCall_NoCatch(ctx, ans) ==
    IF StrategyThrows(ctx, ans) # NoError THEN Threw
    ELSE Returned(Dispatch(ctx, ans))

\* attemptRecovery lines 96-129: the try/catch around the switch
RecoveryCall(ctx, ans) ==
    IF StrategyThrows(ctx, ans) # NoError
    THEN Returned(RecoveryResult(FALSE, NoPlan, "none",
                      Message("Recovery failed", StrategyThrows(ctx, ans))))
    ELSE Returned(Dispatch(ctx, ans))

\* one call of SelfHealer.attemptRecovery(context)
AttemptRecovery ==
    /\ UNCHANGED <<scenario, agentVars, runVars, selVars, detVars, actVars, logVars, valVars, loadVars, obsVars, execVars>>
    /\ hpc = "call"
    /\ \E ans \in Answers :
          LET call == RecoveryCall(context, ans)
          IN  /\ answers' = ans
              /\ IF call.returned
                 THEN /\ hpc' = "returned"
                      /\ recovery' = call.value
                 ELSE /\ hpc' = "threw"
                      /\ recovery' = recovery
    /\ context' = context

NextHeal == AttemptRecovery

SpecHeal == InitHeal /\ [][NextHeal]_vars

(***************************************************************************)
(* Strategy selection: SelfHealer.selectStrategy and                       *)
(* Agent.selectHealingStrategy                                             *)
(***************************************************************************)
\* the phrases an error message is made of: the eight phrases the selectors
\* look for, some of them capitalised, and one they do not look for
SelectPhrases ==
    {"timeout", "not found", "no element", "locator",
     "network", "loading", "hydrat", "navigation",
     "Timeout", "NETWORK", "Locator", "Not Found", "failed"}

\* messages of at most MaxPhrases phrases
SelectMessages == { m \in SUBSET SelectPhrases : Cardinality(m) <= MaxPhrases }

\* attempt numbers passed to the selectors
AttemptNumbers == 0..(MaxBudget + 1)

InitSelect ==
    /\ scenario = [numSteps |-> 0, setup |-> NoSetup]
    /\ pc = "off"
    /\ InitAgentState
    /\ InitLocals
    /\ RunOff
    /\ HealOff
    /\ DetectOff
    /\ ActionsOff
    /\ LoggerOff
    /\ ValidatorOff
    /\ LoaderOff
    /\ ObserverOff
    /\ ExecutorOff
    /\ spc = "call"
    /\ selectArgs \in [error : SelectMessages, attempt : AttemptNumbers]
    /\ selected = NoResult

\* variant: the error text is compared without lower-casing it
SelectStrategy_CaseSensitive(error, attemptNumber) ==
    IF attemptNumber = 1 THEN "wait_and_retry"
    ELSE IF attemptNumber = 2
    THEN IF \/ Includes(error, "timeout")
            \/ Includes(error, "not found")
            \/ Includes(error, "no element")
            \/ Includes(error, "locator")
         THEN "alternative_selector"
         ELSE IF \/ Includes(error, "network")
                 \/ Includes(error, "loading")
                 \/ Includes(error, "hydrat")
                 \/ Includes(error, "navigation")
         THEN "refresh_and_retry"
         ELSE "screenshot_analysis"
    ELSE "reset_to_known_state"

\* variant: the last strategy is chosen at attemptNumber 3 only
SelectStrategy_ResetAtThreeOnly(error, attemptNumber) ==
    LET errorMessage == ToLowerCase(error)
    IN  IF attemptNumber = 1 THEN "wait_and_retry"
        ELSE IF attemptNumber = 3 THEN "reset_to_known_state"
        ELSE IF \/ Includes(errorMessage, "timeout")
                \/ Includes(errorMessage, "not found")
                \/ Includes(errorMessage, "no element")
                \/ Includes(errorMessage, "locator")
        THEN "alternative_selector"
        ELSE IF \/ Includes(errorMessage, "network")
                \/ Includes(errorMessage, "loading")
                \/ Includes(errorMessage, "hydrat")
                \/ Includes(errorMessage, "navigation")
        THEN "refresh_and_retry"
        ELSE "screenshot_analysis"

\* static selectStrategy(error, attempt), SelfHealer.ts lines 376-407
SelectStrategy(error, attemptNumber) ==
    LET errorMessage == ToLowerCase(error)
    IN  IF attemptNumber = 1 THEN "wait_and_retry"
        ELSE IF attemptNumber = 2
        THEN IF \/ Includes(errorMessage, "timeout")
                \/ Includes(errorMessage, "not found")
                \/ Includes(errorMessage, "no element")
                \/ Includes(errorMessage, "locator")
             THEN "alternative_selector"
             ELSE IF \/ Includes(errorMessage, "network")
                     \/ Includes(errorMessage, "loading")
                     \/ Includes(errorMessage, "hydrat")
                     \/ Includes(errorMessage, "navigation")
             THEN "refresh_and_retry"
             ELSE "screenshot_analysis"
        ELSE "reset_to_known_state"

\* a call of SelfHealer.selectStrategy(error, attempt)
CallSelectStrategy ==
    /\ UNCHANGED <<scenario, agentVars, runVars, healVars, detVars, actVars, logVars, valVars, loadVars, obsVars, execVars>>
    /\ spc = "call"
    /\ selected' = SelectStrategy(selectArgs.error, selectArgs.attempt)
    /\ spc' = "healer"
    /\ selectArgs' = selectArgs

\* a call of Agent.selectHealingStrategy(error, attempt)
CallSelectHealingStrategy ==
    /\ UNCHANGED <<scenario, agentVars, runVars, healVars, detVars, actVars, logVars, valVars, loadVars, obsVars, execVars>>
    /\ spc = "call"
    /\ selected' = SelectHealingStrategy(selectArgs.error, selectArgs.attempt)
    /\ spc' = "agent"
    /\ selectArgs' = selectArgs

NextSelect ==
    \/ CallSelectStrategy
    \/ CallSelectHealingStrategy

SpecSelect == InitSelect /\ [][NextSelect]_vars

(***************************************************************************)
(* bugs/index.ts: BugDetector                                              *)
(***************************************************************************)
\* confidences are rationals num/den (den > 0); the oracle's are in tenths
Ratio(num, den) == [num |-> num, den |-> den]

\* conf >= tenths/10
AtLeastTenths(conf, tenths) == 10 * conf.num >= tenths * conf.den

\* CONFIDENCE_THRESHOLD.HIGH = 0.8 and CONFIDENCE_THRESHOLD.LOW = 0.3
CONFIDENCE_THRESHOLD_HIGH == 8
CONFIDENCE_THRESHOLD_LOW == 3

\* NetworkError.status is optional: NoStatus stands for undefined (falsy)
NoStatus == 0
\* NetworkError.error is optional: NoText stands for undefined (falsy)
NoText == {}

\* the network errors an Observation is drawn from: HTTP errors around the
\* 4xx/5xx limits, a failed connection, an aborted response
NetworkErrors ==
    [status : {401, 404, 500, 599, 600}, error : {NoText}]
      \cup {[status |-> NoStatus, error |-> {"net::"}],
            [status |-> 503, error |-> {"Aborted"}]}

\* console messages: an uncaught TypeError, a React warning
ConsoleLogs ==
    {<<>>, <<{"Uncaught", "TypeError"}>>, <<{"Warning:", "React"}>>,
     <<{"Uncaught", "TypeError"}, {"Warning:", "React"}>>}

\* sequences over S of length at most n
SeqUpTo(S, n) == UNION { [1..k -> S] : k \in 0..n }

\* PageObservation as far as the detector reads it
Observations ==
    [url : {"https://app.test/contacts"},
     networkErrors : SeqUpTo(NetworkErrors, MaxNetErrors),
     consoleErrors : ConsoleLogs,
     hasInteractiveElements : BOOLEAN,
     loadingIndicators : BOOLEAN]

\* the phrases error.message is made of: one per kind of signal (two for
\* the timing signal), one in capitals, one that is no signal
DetectPhrases ==
    {"is not a function", "not found", "Timeout", "waiting for",
     "invalid selector", "dns", "certificate", "failed"}

DetectMessages == { m \in SUBSET DetectPhrases : Cardinality(m) <= MaxPhrases }

\* the action history and the screenshot of the failing session: a failure
\* before any action, without screenshot, or after six actions, with one
Sessions ==
    {[actionHistory |-> <<>>, screenshot |-> FALSE],
     [actionHistory |-> <<"a1", "a2", "a3", "a4", "a5", "a6">>, screenshot |-> TRUE]}

\* DiagnosisContext
DiagnosisContexts ==
    [error : DetectMessages, observation : Observations, session : Sessions]

\* indicators.push(text); score += points, under a condition
AddIndicator(acc, fired, text, points) ==
    IF fired
    THEN [indicators |-> Append(acc.indicators, text), score |-> acc.score + points]
    ELSE acc

NoIndicators == [indicators |-> <<>>, score |-> 0]

\* errorMessage.includes(p1) || errorMessage.includes(p2) || ...
IncludesAny(errorMessage, phrases) ==
    \E phrase \in phrases : Includes(errorMessage, phrase)

\* isJavaScriptError, lines 359-371
IsJavaScriptError(consoleError) ==
    IncludesAny(ToLowerCase(consoleError),
                {"typeerror", "referenceerror", "syntaxerror", "uncaught",
                 "unhandled", "exception", "error:"})

\* isReactError, lines 376-388
IsReactError(consoleError) ==
    IncludesAny(ToLowerCase(consoleError),
                {"react", "hydration", "warning:", "each child in a list",
                 "invalid hook call", "cannot update", "maximum update depth"})

\* isNetworkConnectionError, lines 393-409
IsNetworkConnectionError(e) ==
    IF e.error # NoText /\ e.status = NoStatus THEN TRUE
    ELSE IF e.error # NoText
    THEN IncludesAny(ToLowerCase(e.error),
                     {"net::", "connection", "timeout", "aborted"})
    ELSE FALSE

\* variant: only statuses above 500 count as server errors
IsServerError_Above500(e) ==
    e.status # NoStatus /\ e.status > 500 /\ e.status < 600

\* e.status && e.status >= 500 && e.status < 600, line 169
IsServerError(e) ==
    e.status # NoStatus /\ e.status >= 500 /\ e.status < 600

\* line 196: 4xx except 401 and 403
IsApiError(e) ==
    /\ e.status # NoStatus
    /\ e.status >= 400
    /\ e.status < 500
    /\ e.status # 401
    /\ e.status # 403

\* detectAppBugIndicators, lines 160-215
DetectAppBugIndicators(observation, errorMessage) ==
    LET serverErrors == SelectSeq(observation.networkErrors, IsServerError)
        jsErrors == SelectSeq(observation.consoleErrors, IsJavaScriptError)
        reactErrors == SelectSeq(observation.consoleErrors, IsReactError)
        apiErrors == SelectSeq(observation.networkErrors, IsApiError)
        r1 == AddIndicator(NoIndicators, Len(serverErrors) > 0,
                           "Server errors (5xx)", 3)
        r2 == AddIndicator(r1, Len(jsErrors) > 0, "JavaScript errors", 2)
        r3 == AddIndicator(r2, Len(reactErrors) > 0, "React errors", 2)
        r4 == AddIndicator(r3, Len(apiErrors) > 0, "API errors (4xx)", 2)
    IN  AddIndicator(r4,
            IncludesAny(errorMessage,
                        {"undefined is not", "cannot read property",
                         "is not a function", "null reference"}),
            "Error suggests runtime JavaScript error", 2)

\* variant: the timing signal is counted once per phrase found
DetectAgentBugIndicators_PerPhrase(observation, errorMessage) ==
    LET notFound == IncludesAny(errorMessage,
                        {"no element", "not found", "unable to find", "could not find"})
        found == Cardinality({ phrase \in {"timeout", "waiting for", "timed out"} :
                                 Includes(errorMessage, phrase) })
        r1 == IF observation.hasInteractiveElements
              THEN AddIndicator(NoIndicators, notFound,
                     "Element not found but page has interactive elements", 2)
              ELSE AddIndicator(NoIndicators, notFound,
                     "Element not found - page may be empty or still loading", 1)
        r2 == IF ~observation.loadingIndicators
              THEN AddIndicator(r1, found > 0, "Timeout without loading indicators",
                                2 * found)
              ELSE AddIndicator(r1, found > 0, "Timeout with loading indicators",
                                found)
        r3 == AddIndicator(r2,
                  IncludesAny(errorMessage, {"not interactable", "obscured", "covered by"}),
                  "Element not interactable", 2)
        r4 == AddIndicator(r3,
                  IncludesAny(errorMessage, {"invalid selector", "syntax error"}),
                  "Invalid selector syntax", 3)
    IN  AddIndicator(r4,
            IncludesAny(errorMessage, {"not attached", "detached", "stale element"}),
            "Element detached", 2)

\* detectAgentBugIndicators, lines 220-291
DetectAgentBugIndicators(observation, errorMessage) ==
    LET notFound == IncludesAny(errorMessage,
                        {"no element", "not found", "unable to find", "could not find"})
        timing == IncludesAny(errorMessage, {"timeout", "waiting for", "timed out"})
        r1 == IF observation.hasInteractiveElements
              THEN AddIndicator(NoIndicators, notFound,
                     "Element not found but page has interactive elements", 2)
              ELSE AddIndicator(NoIndicators, notFound,
                     "Element not found - page may be empty or still loading", 1)
        r2 == IF ~observation.loadingIndicators
              THEN AddIndicator(r1, timing, "Timeout without loading indicators", 2)
              ELSE AddIndicator(r1, timing, "Timeout with loading indicators", 1)
        r3 == AddIndicator(r2,
                  IncludesAny(errorMessage, {"not interactable", "obscured", "covered by"}),
                  "Element not interactable", 2)
        r4 == AddIndicator(r3,
                  IncludesAny(errorMessage, {"invalid selector", "syntax error"}),
                  "Invalid selector syntax", 3)
    IN  AddIndicator(r4,
            IncludesAny(errorMessage, {"not attached", "detached", "stale element"}),
            "Element detached", 2)

\* line 314: e.status === 401 || e.status === 403
IsAuthError(e) == e.status = 401 \/ e.status = 403

\* detectEnvironmentIndicators, lines 296-354
DetectEnvironmentIndicators(observation, errorMessage) ==
    LET networkFailures ==
            SelectSeq(observation.networkErrors, IsNetworkConnectionError)
        authErrors == SelectSeq(observation.networkErrors, IsAuthError)
        r1 == AddIndicator(NoIndicators, Len(networkFailures) > 0,
                           "Network connection errors", 3)
        r2 == AddIndicator(r1, Len(authErrors) > 0, "Authentication errors", 2)
        r3 == AddIndicator(r2,
                  IncludesAny(errorMessage,
                      {"econnrefused", "enotfound", "connection refused", "dns",
                       "unreachable"}),
                  "Server unreachable or DNS failure", 3)
        r4 == AddIndicator(r3,
                  IncludesAny(errorMessage, {"ssl", "tls", "certificate"}),
                  "SSL/TLS certificate error", 2)
    IN  AddIndicator(r4,
            IncludesAny(errorMessage,
                {"browser has disconnected", "target closed",
                 "context has been destroyed"}),
            "Browser context error", 2)

\* Math.max(a, b, c)
Max3(a, b, c) ==
    IF a >= b /\ a >= c THEN a ELSE IF b >= c THEN b ELSE c

\* a HeuristicResult
HeuristicResult(classification, confidence, indicators) ==
    [classification |-> classification, confidence |-> confidence,
     indicators |-> indicators]

\* variant: the agent category is looked at before the application category
Classify_AgentFirst(maxScore, appBugScore, agentBugScore, envIssueScore) ==
    IF maxScore = agentBugScore THEN "agent_bug"
    ELSE IF maxScore = appBugScore THEN "app_bug"
    ELSE IF maxScore = envIssueScore THEN "environment_issue"
    ELSE "unknown"

\* the if/else chain of lines 143-152
Classify(maxScore, appBugScore, agentBugScore, envIssueScore) ==
    IF maxScore = appBugScore THEN "app_bug"
    ELSE IF maxScore = agentBugScore THEN "agent_bug"
    ELSE IF maxScore = envIssueScore THEN "environment_issue"
    ELSE "unknown"

\* variant: a total of zero is not treated apart
ZeroScoreResult_Classified(indicators) ==
    HeuristicResult("app_bug", Ratio(0, 1), indicators)

\* lines 136-138: no signal fired
ZeroScoreResult(indicators) ==
    HeuristicResult("unknown", Ratio(0, 1), indicators)

\* variant: the confidence is max/total, without the one added to the total
AnalyzeWithHeuristics_NoPlusOne(error, observation) ==
    LET errorMessage == ToLowerCase(error)
        appBugIndicators == DetectAppBugIndicators(observation, errorMessage)
        agentBugIndicators == DetectAgentBugIndicators(observation, errorMessage)
        envIndicators == DetectEnvironmentIndicators(observation, errorMessage)
        indicators == appBugIndicators.indicators \o agentBugIndicators.indicators
                        \o envIndicators.indicators
        appBugScore == appBugIndicators.score
        agentBugScore == agentBugIndicators.score
        envIssueScore == envIndicators.score
        totalScore == appBugScore + agentBugScore + envIssueScore
        maxScore == Max3(appBugScore, agentBugScore, envIssueScore)
    IN  IF totalScore = 0
        THEN ZeroScoreResult(indicators)
        ELSE HeuristicResult(
                 Classify(maxScore, appBugScore, agentBugScore, envIssueScore),
                 Ratio(maxScore, totalScore),
                 indicators)

\* analyzeWithHeuristics, lines 108-155
AnalyzeWithHeuristics(error, observation) ==
    LET errorMessage == ToLowerCase(error)
        appBugIndicators == DetectAppBugIndicators(observation, errorMessage)
        agentBugIndicators == DetectAgentBugIndicators(observation, errorMessage)
        envIndicators == DetectEnvironmentIndicators(observation, errorMessage)
        indicators == appBugIndicators.indicators \o agentBugIndicators.indicators
                        \o envIndicators.indicators
        appBugScore == appBugIndicators.score
        agentBugScore == agentBugIndicators.score
        envIssueScore == envIndicators.score
        totalScore == appBugScore + agentBugScore + envIssueScore
        maxScore == Max3(appBugScore, agentBugScore, envIssueScore)
    IN  IF totalScore = 0
        THEN ZeroScoreResult(indicators)
        ELSE HeuristicResult(
                 Classify(maxScore, appBugScore, agentBugScore, envIssueScore),
                 Ratio(maxScore, totalScore + 1),
                 indicators)

\* indicators.some(i => i.includes(fragment)), by the indicator texts that
\* contain the fragment
SomeIndicator(indicators, texts) ==
    \E k \in 1..Len(indicators) : indicators[k] \in texts

\* variant: the authentication indicator escalates an environment issue too
DetermineSeverity_AuthEscalates(classification, indicators) ==
    LET hasServerError == SomeIndicator(indicators, {"Server errors (5xx)"})
        hasJsError ==
            SomeIndicator(indicators,
                {"JavaScript errors", "React errors",
                 "Error suggests runtime JavaScript error"})
    IN  CASE classification = "app_bug" ->
               IF hasServerError THEN "critical"
               ELSE IF hasJsError THEN "high" ELSE "medium"
          [] classification = "agent_bug" ->
               IF SomeIndicator(indicators, {"Invalid selector syntax"})
               THEN "high" ELSE "medium"
          [] classification = "environment_issue" ->
               IF SomeIndicator(indicators,
                      {"Server unreachable or DNS failure",
                       "Network connection errors", "Authentication errors"})
               THEN "high" ELSE "medium"
          [] OTHER -> "low"

\* determineSeverity, lines 458-485
DetermineSeverity(classification, indicators) ==
    LET hasServerError == SomeIndicator(indicators, {"Server errors (5xx)"})
        hasJsError ==
            SomeIndicator(indicators,
                {"JavaScript errors", "React errors",
                 "Error suggests runtime JavaScript error"})
    IN  CASE classification = "app_bug" ->
               IF hasServerError THEN "critical"
               ELSE IF hasJsError THEN "high" ELSE "medium"
          [] classification = "agent_bug" ->
               IF SomeIndicator(indicators, {"Invalid selector syntax"})
               THEN "high" ELSE "medium"
          [] classification = "environment_issue" ->
               IF SomeIndicator(indicators,
                      {"Server unreachable or DNS failure",
                       "Network connection errors"})
               THEN "high" ELSE "medium"
          [] OTHER -> "low"

\* classification.replace('_', ' ')
ReplaceUnderscore(classification) ==
    CASE classification = "app_bug" -> "app bug"
      [] classification = "agent_bug" -> "agent bug"
      [] classification = "environment_issue" -> "environment issue"
      [] OTHER -> classification

\* actionHistory.slice(-n)
LastN(history, n) ==
    IF Len(history) <= n THEN history
    ELSE SubSeq(history, Len(history) - n + 1, Len(history))

\* createBugFromHeuristics, lines 414-453
CreateBugFromHeuristics(ctx, h) ==
    [classification |-> h.classification,
     confidence |-> h.confidence,
     description |->
         <<"Heuristic analysis detected", ReplaceUnderscore(h.classification),
           "Indicators:">> \o h.indicators,
     severity |-> DetermineSeverity(h.classification, h.indicators),
     reproductionSteps |->
         <<"Navigate to">> \o LastN(ctx.session.actionHistory, 5)
            \o <<"Attempt", "Error">>,
     screenshots |-> <<>>,
     consoleErrors |-> <<>>,
     networkErrors |-> <<>>,
     url |-> "",
     sessionId |-> ""]

\* What the oracle's JSON says. JSON.parse checks nothing: the confidence
\* may lie outside 0..1 and the reproduction steps may be empty.
OracleReplies ==
    {[classification |-> "agent_bug", confidence |-> Ratio(5, 10),
      severity |-> "medium", reproductionSteps |-> <<"step1", "step2">>],
     [classification |-> "unknown", confidence |-> Ratio(12, 10),
      severity |-> "low", reproductionSteps |-> <<"step1">>],
     [classification |-> "app_bug", confidence |-> Ratio(-2, 10),
      severity |-> "high", reproductionSteps |-> <<>>],
     [classification |-> "environment_issue", confidence |-> Ratio(10, 10),
      severity |-> "medium", reproductionSteps |-> <<"step1">>]}

\* ClaudeClient.parseDiagnosis, Executor.ts lines 1632-1653: the parsed JSON
\* as it is, with the context fields blanked
ParseDiagnosis(parsed) ==
    [classification |-> parsed.classification,
     confidence |-> parsed.confidence,
     description |-> <<"Oracle diagnosis">>,
     severity |-> parsed.severity,
     reproductionSteps |-> parsed.reproductionSteps,
     screenshots |-> <<>>,
     consoleErrors |-> <<>>,
     networkErrors |-> <<>>,
     url |-> "",
     sessionId |-> ""]

\* variant: the bug is returned as built, without the context
EnrichBug_Identity(b, ctx) == b

\* enrichBug, lines 560-572
EnrichBug(b, ctx) ==
    [b EXCEPT !.url = ctx.observation.url,
              !.screenshots = IF ctx.session.screenshot
                              THEN <<"screenshot">> ELSE <<>>,
              !.consoleErrors = ctx.observation.consoleErrors,
              !.networkErrors = ctx.observation.networkErrors,
              !.sessionId = ""]

\* variant: heuristics are used from the medium threshold on
UseHeuristics_FromMedium(h) == AtLeastTenths(h.confidence, 5)

\* heuristic.confidence >= CONFIDENCE_THRESHOLD.HIGH, line 68
UseHeuristics(h) == AtLeastTenths(h.confidence, CONFIDENCE_THRESHOLD_HIGH)

\* line 80: the indicators add value
MergeIndicators(h) ==
    Len(h.indicators) > 0 /\ AtLeastTenths(h.confidence, CONFIDENCE_THRESHOLD_LOW)

\* line 81: the indicators appended to the oracle's description
MergedDescription(description, indicators) ==
    description \o <<"Heuristic indicators:">> \o indicators

\* the oracle has not been consulted
NoAnswer == [consulted |-> FALSE]

InitDetect ==
    /\ scenario = [numSteps |-> 0, setup |-> NoSetup]
    /\ pc = "off"
    /\ InitAgentState
    /\ InitLocals
    /\ RunOff
    /\ HealOff
    /\ SelectOff
    /\ ActionsOff
    /\ LoggerOff
    /\ ValidatorOff
    /\ LoaderOff
    /\ ObserverOff
    /\ ExecutorOff
    /\ dpc = "call"
    /\ diagContext \in DiagnosisContexts
    /\ heuristic = NoResult
    /\ oracleAnswer = NoAnswer
    /\ detected = NoResult

\* diagnose, lines 59-72: heuristics first; a confident result is built into
\* the bug and returned, otherwise the oracle is asked
DetectorDiagnose ==
    /\ UNCHANGED <<scenario, agentVars, runVars, healVars, selVars, actVars, logVars, valVars, loadVars, obsVars, execVars>>
    /\ dpc = "call"
    /\ heuristic' = AnalyzeWithHeuristics(diagContext.error, diagContext.observation)
    /\ IF UseHeuristics(heuristic')
       THEN /\ detected' = EnrichBug(CreateBugFromHeuristics(diagContext, heuristic'),
                                     diagContext)
            /\ dpc' = "returned"
       ELSE /\ detected' = detected
            /\ dpc' = "oracle"
    /\ UNCHANGED <<diagContext, oracleAnswer>>

\* diagnose, lines 72-86: claude.diagnoseBug answers or throws
OracleAnswers ==
    /\ UNCHANGED <<scenario, agentVars, runVars, healVars, selVars, actVars, logVars, valVars, loadVars, obsVars, execVars>>
    /\ dpc = "oracle"
    /\ \/ \E parsed \in OracleReplies :
             LET b == ParseDiagnosis(parsed)
                 merged == IF MergeIndicators(heuristic)
                           THEN [b EXCEPT !.description =
                                    MergedDescription(@, heuristic.indicators)]
                           ELSE b
             IN  /\ oracleAnswer' = [consulted |-> TRUE, threw |-> FALSE,
                                     bug |-> b]
                 /\ detected' = EnrichBug(merged, diagContext)
                 /\ dpc' = "returned"
       \/ \* the request fails or the reply holds no JSON
          /\ oracleAnswer' = [consulted |-> TRUE, threw |-> TRUE]
          /\ detected' = detected
          /\ dpc' = "threw"
    /\ UNCHANGED <<diagContext, heuristic>>

NextDetect ==
    \/ DetectorDiagnose
    \/ OracleAnswers

SpecDetect == InitDetect /\ [][NextDetect]_vars

(***************************************************************************)
(* Agent.plan and Agent.executeActions: the action history                 *)
(***************************************************************************)
\* this.actionHistory.slice(-10): the planning context holds 10 descriptions
PreviousActionsLimit == 10

\* a PlannedAction as far as executeActions reads it (no value)
PlannedActions == [type : {"click", "fill"}, target : {"#submit"}]

\* plan.actions as the oracle may return it
ActionPlans == UNION { [1..n -> PlannedActions] : n \in 0..MaxPlanLen }

\* scenario.setup.preconditions
PreconditionLists == { <<>>, <<"logged in">> }

\* `${action.type} on ${action.target}`, line 347
ActionDesc(action) == <<action.type, "on", action.target>>

\* `[Precondition] ${precondition}`, line 504
PreconditionDesc(precondition) == <<"[Precondition]", precondition>>

\* the ExecutedAction returned by executor.execute(action, observation)
ExecutedAction(action, success) == [plan |-> action, success |-> success]

\* variant: the planning context is the oldest 10 descriptions
PreviousActions_Oldest(history) ==
    IF Len(history) <= PreviousActionsLimit THEN history
    ELSE SubSeq(history, 1, PreviousActionsLimit)

\* previousActions: this.actionHistory.slice(-10), line 330
PreviousActions(history) == LastN(history, PreviousActionsLimit)

\* runScenario line 136: this.actionHistory = []
InitActions ==
    /\ scenario = [numSteps |-> 0, setup |-> NoSetup]
    /\ pc = "off"
    /\ InitAgentState
    /\ InitLocals
    /\ RunOff
    /\ HealOff
    /\ SelectOff
    /\ DetectOff
    /\ LoggerOff
    /\ ValidatorOff
    /\ LoaderOff
    /\ ObserverOff
    /\ ExecutorOff
    /\ apc = "setup"
    /\ actionHistory = <<>>
    /\ previousActions = NoResult
    /\ planActions = <<>>
    /\ executed = <<>>
    /\ logged = <<>>

\* handleSetup lines 502-506: the preconditions are pushed, not executed
RecordPreconditions ==
    /\ UNCHANGED <<scenario, agentVars, runVars, healVars, selVars, detVars, logVars, valVars, loadVars, obsVars, execVars>>
    /\ apc = "setup"
    /\ \E preconditions \in PreconditionLists :
          actionHistory' =
              actionHistory \o [k \in 1..Len(preconditions) |->
                                   PreconditionDesc(preconditions[k])]
    /\ apc' = "plan"
    /\ UNCHANGED <<previousActions, planActions, executed, logged>>

\* Agent.plan, lines 326-332, as called by an attempt of executeStep: the
\* oracle is given the last descriptions and returns a plan or throws
CallPlan ==
    /\ UNCHANGED <<scenario, agentVars, runVars, healVars, selVars, detVars, logVars, valVars, loadVars, obsVars, execVars>>
    /\ apc \in {"plan", "returned", "actionFailed", "loggerThrew"}
    /\ previousActions' = PreviousActions(actionHistory)
    /\ executed' = <<>>
    /\ logged' = <<>>
    /\ \E ok \in BOOLEAN :
          IF ok
          THEN /\ planActions' \in ActionPlans
               /\ apc' = "loop"
          ELSE \* claude.planActions throws: the attempt ends
               /\ planActions' = <<>>
               /\ apc' = "plan"
    /\ actionHistory' = actionHistory

\* variant: a failed action does not stop the loop
AfterAction_IgnoresFailure(actionResult) == "loop"

\* if (!result.success) throw new Error(...), lines 350-352
AfterAction(actionResult) ==
    IF actionResult.success THEN "loop" ELSE "actionFailed"

\* executeActions lines 341-353: one iteration of the loop over plan.actions;
\* executor.execute never throws, it reports success=false
ExecuteNextAction ==
    /\ UNCHANGED <<scenario, agentVars, runVars, healVars, selVars, detVars, logVars, valVars, loadVars, obsVars, execVars>>
    /\ apc = "loop"
    /\ Len(executed) < Len(planActions)
    /\ Len(actionHistory) < MaxRecorded
    /\ \E success \in BOOLEAN, logOk \in BOOLEAN :
          LET action == planActions[Len(executed) + 1]
              actionResult == ExecutedAction(action, success)
          IN  /\ executed' = Append(executed, actionResult)
              /\ logged' = Append(logged, actionResult)
              /\ IF logOk
                 THEN /\ actionHistory' = Append(actionHistory, ActionDesc(action))
                      /\ apc' = AfterAction(actionResult)
                 ELSE \* logger.logAction throws before the push of line 348
                      /\ actionHistory' = actionHistory
                      /\ apc' = "loggerThrew"
    /\ UNCHANGED <<previousActions, planActions>>

\* executeActions line 354: the loop over plan.actions is exhausted
ActionsExecuted ==
    /\ UNCHANGED <<scenario, agentVars, runVars, healVars, selVars, detVars, logVars, valVars, loadVars, obsVars, execVars>>
    /\ apc = "loop"
    /\ Len(executed) = Len(planActions)
    /\ apc' = "returned"
    /\ UNCHANGED <<actionHistory, previousActions, planActions, executed, logged>>

NextActions ==
    \/ RecordPreconditions
    \/ CallPlan
    \/ ExecuteNextAction
    \/ ActionsExecuted

(***************************************************************************)
(* SessionLogger: the action lists                                         *)
(***************************************************************************)
\* if (this.recentActions.length > 10), line 196
RecentActionsLimit == 10

\* the ExecutedActions passed to logAction
LoggedActions ==
    { ExecutedAction([type |-> "click", target |-> "#submit"], TRUE),
      ExecutedAction([type |-> "fill", target |-> "#submit"], FALSE) }

\* the description built by logAction, line 191
LoggedDesc(action) ==
    <<action.plan.type, "on", action.plan.target, "-",
      IF action.success THEN "SUCCESS" ELSE "FAILED">>

\* variant: the newest description is dropped when the list is full
PushRecent_DropNewest(recent, desc) ==
    IF Len(recent) >= RecentActionsLimit THEN recent ELSE Append(recent, desc)

\* logAction lines 193-198: push, then shift the oldest one out
PushRecent(recent, desc) ==
    LET pushed == Append(recent, desc)
    IN  IF Len(pushed) > RecentActionsLimit THEN Tail(pushed) ELSE pushed

\* new SessionLogger(logDir)
InitLogger ==
    /\ scenario = [numSteps |-> 0, setup |-> NoSetup]
    /\ pc = "off"
    /\ InitAgentState
    /\ InitLocals
    /\ RunOff
    /\ HealOff
    /\ SelectOff
    /\ DetectOff
    /\ ActionsOff
    /\ ValidatorOff
    /\ LoaderOff
    /\ ObserverOff
    /\ ExecutorOff
    /\ lpc = "new"
    /\ recentActions = <<>>
    /\ allActions = <<>>

\* startSession: the lists are reset
StartSession ==
    /\ UNCHANGED <<scenario, agentVars, runVars, healVars, selVars, detVars, actVars, valVars, loadVars, obsVars, execVars>>
    /\ lpc \in {"new", "step"}
    /\ recentActions' = <<>>
    /\ allActions' = <<>>
    /\ lpc' = "session"

\* startStep: currentStepDir is set
StartStep ==
    /\ UNCHANGED <<scenario, agentVars, runVars, healVars, selVars, detVars, actVars, valVars, loadVars, obsVars, execVars>>
    /\ lpc = "session"
    /\ lpc' = "step"
    /\ UNCHANGED <<recentActions, allActions>>

\* logAction, lines 180-202: the lists are updated before the file is
\* written, so they change whether or not writeFile rejects
LogAction ==
    /\ UNCHANGED <<scenario, agentVars, runVars, healVars, selVars, detVars, actVars, valVars, loadVars, obsVars, execVars>>
    /\ lpc = "step"
    /\ Len(allActions) < MaxRecorded
    /\ \E action \in LoggedActions :
          /\ recentActions' = PushRecent(recentActions, LoggedDesc(action))
          /\ allActions' = Append(allActions, LoggedDesc(action))
    /\ lpc' = lpc

NextLogger ==
    \/ StartSession
    \/ StartStep
    \/ LogAction

\* the action history of the agent and the action lists of the logger
SpecActions ==
    (InitActions \/ InitLogger) /\ [][NextActions \/ NextLogger]_vars

(***************************************************************************)
(* Validator.validate                                                      *)
(***************************************************************************)
\* an Assertion: a comparison of the page url, the absence of errors, or a
\* type the validator does not know
Assertions ==
    [type : {"url"}, value : {"/home", "/login"},
     operator : {"equals", "not_equals"}]
    \cup {[type |-> "no_errors", value |-> "", operator |-> "equals"],
          [type |-> "hover", value |-> "", operator |-> "equals"]}

\* request.assertions (absent or empty: no assertion is declared)
AssertionLists == UNION { [1..n -> Assertions] : n \in 0..MaxAssertions }

\* a PageObservation as far as the assertions read it
PageStates == [url : {"/home", "/login"}, hasErrors : BOOLEAN]

\* a ValidationRequest
ValidationRequests ==
    [assertions : AssertionLists, beforeObservation : PageStates,
     afterObservation : PageStates]

\* compareValues, lines 296-316
CompareValues(actual, expected, operator) ==
    CASE operator = "equals" -> actual = expected
      [] operator = "not_equals" -> actual # expected

\* an AssertionResult
AssertionResult(passed, message) == [passed |-> passed, message |-> message]

\* checkUrlAssertion, lines 116-132
CheckUrlAssertion(assertion, observation) ==
    LET passed == CompareValues(observation.url, assertion.value,
                                assertion.operator)
    IN  AssertionResult(passed,
            IF passed THEN <<"URL", assertion.operator, assertion.value>>
            ELSE <<"URL assertion failed", observation.url,
                   assertion.operator, assertion.value>>)

\* checkNoErrorsAssertion, lines 251-291
CheckNoErrorsAssertion(observation) ==
    IF ~observation.hasErrors
    THEN AssertionResult(TRUE, <<"No console or network errors detected">>)
    ELSE AssertionResult(FALSE, <<"Errors detected">>)

\* checkAssertion, lines 88-111
CheckAssertion(assertion, observation) ==
    CASE assertion.type = "url" -> CheckUrlAssertion(assertion, observation)
      [] assertion.type = "no_errors" -> CheckNoErrorsAssertion(observation)
      [] OTHER -> AssertionResult(FALSE,
                      <<"Unknown assertion type", assertion.type>>)

\* the loop of lines 53-60: the messages of the assertions that do not pass
RECURSIVE CheckAssertions(_, _)
CheckAssertions(assertions, observation) ==
    IF assertions = <<>> THEN <<>>
    ELSE LET checked == CheckAssertion(Head(assertions), observation)
             others == CheckAssertions(Tail(assertions), observation)
         IN  IF checked.passed THEN others ELSE <<checked.message>> \o others

\* what claude.validateAction answers when it returns
SemanticAnswers ==
    [consulted : {TRUE}, threw : {FALSE}, passed : BOOLEAN,
     reason : {"as expected", "not as expected"}]

\* claude.validateAction throws
SemanticThrew ==
    [consulted |-> TRUE, threw |-> TRUE, passed |-> FALSE, reason |-> "thrown"]

\* claude.validateAction is not called
NoSemanticAnswer ==
    [consulted |-> FALSE, threw |-> FALSE, passed |-> FALSE, reason |-> ""]

\* a ValidationResult
ValidationResult(passed, reason, failures) ==
    [passed |-> passed, reason |-> reason, failures |-> failures]

\* variant: the semantic check is made whatever the assertions gave
ReturnEarly_Never(failures) == FALSE

\* if (failures.length > 0), line 63
ReturnEarly(failures) == Len(failures) > 0

\* variant: the assertions are checked against the before-observation
CheckedObservation_Before(req) == req.beforeObservation

\* the observation given to checkAssertion, line 55
CheckedObservation(req) == req.afterObservation

InitValidator ==
    /\ scenario = [numSteps |-> 0, setup |-> NoSetup]
    /\ pc = "off"
    /\ InitAgentState
    /\ InitLocals
    /\ RunOff
    /\ HealOff
    /\ SelectOff
    /\ DetectOff
    /\ ActionsOff
    /\ LoggerOff
    /\ LoaderOff
    /\ ObserverOff
    /\ ExecutorOff
    /\ vpc = "call"
    /\ request \in ValidationRequests
    /\ semantic = NoSemanticAnswer
    /\ validation = NoResult

\* Validator.validate, lines 49-83
ValidatorValidate ==
    /\ UNCHANGED <<scenario, agentVars, runVars, healVars, selVars, detVars, actVars, logVars, loadVars, obsVars, execVars>>
    /\ vpc = "call"
    /\ LET failures ==
              CheckAssertions(request.assertions, CheckedObservation(request))
       IN  IF ReturnEarly(failures)
           THEN /\ semantic' = NoSemanticAnswer
                /\ validation' =
                      ValidationResult(FALSE,
                          <<"Assertion checks failed", failures>>, failures)
                /\ vpc' = "returned"
           ELSE /\ semantic' \in SemanticAnswers \cup {SemanticThrew}
                /\ IF semantic'.threw
                   THEN /\ validation' = validation
                        /\ vpc' = "threw"
                   ELSE /\ validation' =
                             ValidationResult(semantic'.passed, semantic'.reason,
                                 IF semantic'.passed THEN failures
                                 ELSE Append(failures, semantic'.reason))
                        /\ vpc' = "returned"
    /\ request' = request

NextValidator == ValidatorValidate

SpecValidator == InitValidator /\ [][NextValidator]_vars

(***************************************************************************)
(* ScenarioLoader: a step of a scenario file, validated, normalized and    *)
(* handed to the step runner                                               *)
(***************************************************************************)
\* A value as the YAML parser returns it: its typeof, whether it is NaN, and
\* its numeric value (for a string: its length)
JsValue(type, nan, value) == [type |-> type, nan |-> nan, value |-> value]

Undefined == JsValue("undefined", FALSE, 0)
Null == JsValue("object", FALSE, 0)
NaN == JsValue("number", TRUE, 0)
Num(n) == JsValue("number", FALSE, n)
Str(n) == JsValue("string", FALSE, n)

\* the values a scenario file may give to maxAttempts
RawMaxAttempts ==
    {Undefined, Null, Str(1), NaN} \cup { Num(n) : n \in (-1)..MaxBudget }

\* a step as parsed from a scenario file (the fields validateStep reads
\* before the assertions)
RawSteps ==
    [name : {Undefined, Str(0), Str(4)},
     goal : {Undefined, Str(4)},
     startUrl : {Undefined, Str(4), Num(5)},
     maxAttempts : RawMaxAttempts,
     timeout : {Undefined, Num(-1), Num(0)}]

\* typeof v
TypeOf(v) == v.type

\* !v
Falsy(v) ==
    \/ v \in {Undefined, Null}
    \/ TypeOf(v) = "number" /\ (v.nan \/ v.value = 0)
    \/ TypeOf(v) = "string" /\ v.value = 0

\* a < b on numbers: every comparison with NaN is false
LessThan(a, b) == ~a.nan /\ ~b.nan /\ a.value < b.value

\* errors.push({path, ...}) when the condition holds
PushIf(condition, path) == IF condition THEN <<path>> ELSE <<>>

\* variant: a maxAttempts that is not at least 1 is rejected
InvalidMaxAttempts_NotAtLeastOne(v) ==
    v # Undefined /\ ~(TypeOf(v) = "number" /\ ~v.nan /\ v.value >= 1)

\* lines 1268-1269: maxAttempts is given and is not a number or is < 1
InvalidMaxAttempts(v) ==
    v # Undefined /\ (TypeOf(v) # "number" \/ LessThan(v, Num(1)))

\* validateStep, lines 1230-1290: the paths of the errors pushed
ValidateStep(st) ==
    PushIf(Falsy(st.name) \/ TypeOf(st.name) # "string", "name")
    \o PushIf(Falsy(st.goal) \/ TypeOf(st.goal) # "string", "goal")
    \o PushIf(st.startUrl # Undefined /\ TypeOf(st.startUrl) # "string",
              "startUrl")
    \o PushIf(InvalidMaxAttempts(st.maxAttempts), "maxAttempts")
    \o PushIf(st.timeout # Undefined
              /\ (TypeOf(st.timeout) # "number" \/ LessThan(st.timeout, Num(0))),
              "timeout")

\* normalizeStep, lines 1064-1091: absent optional fields stay undefined
NormalizeStep(raw) ==
    [name |-> raw.name,
     goal |-> raw.goal,
     startUrl |-> IF Falsy(raw.startUrl) THEN Undefined ELSE raw.startUrl,
     maxAttempts |-> raw.maxAttempts,
     timeout |-> raw.timeout]

\* a ?? b
Nullish(a, b) == IF a \in {Undefined, Null} THEN b ELSE a

\* const maxAttempts = step.maxAttempts ?? MAX_HEALING_ATTEMPTS, line 230
EffectiveBudget(st) == Nullish(st.maxAttempts, Num(MAX_HEALING_ATTEMPTS))

InitLoader ==
    /\ scenario = [numSteps |-> 0, setup |-> NoSetup]
    /\ pc = "off"
    /\ InitAgentState
    /\ InitLocals
    /\ RunOff
    /\ HealOff
    /\ SelectOff
    /\ DetectOff
    /\ ActionsOff
    /\ LoggerOff
    /\ ValidatorOff
    /\ ObserverOff
    /\ ExecutorOff
    /\ ldpc = "parsed"
    /\ rawStep \in RawSteps
    /\ loadErrors = <<>>
    /\ loadedStep = NoResult
    /\ loadedBudget = NoResult
    /\ loadedAttempts = 0

\* ScenarioLoader.load, lines 813-827: validate, then throw or normalize
LoadStep ==
    /\ UNCHANGED <<scenario, agentVars, runVars, healVars, selVars, detVars, actVars, logVars, valVars, obsVars, execVars>>
    /\ ldpc = "parsed"
    /\ loadErrors' = ValidateStep(rawStep)
    /\ IF loadErrors' # <<>>
       THEN /\ ldpc' = "rejected"
            /\ loadedStep' = loadedStep
       ELSE /\ ldpc' = "loaded"
            /\ loadedStep' = NormalizeStep(rawStep)
    /\ UNCHANGED <<rawStep, loadedBudget, loadedAttempts>>

\* executeStep lines 229-239 on the loaded step: the budget, startStep, and
\* the first test of while (attempt < maxAttempts)
ExecuteLoadedStep ==
    /\ UNCHANGED <<scenario, agentVars, runVars, healVars, selVars, detVars, actVars, logVars, valVars, obsVars, execVars>>
    /\ ldpc = "loaded"
    /\ loadedBudget' = EffectiveBudget(loadedStep)
    /\ \E logOk \in BOOLEAN :
          IF ~logOk
          THEN \* logger.startStep throws
               /\ ldpc' = "threw"
               /\ loadedAttempts' = loadedAttempts
          ELSE IF LessThan(Num(0), loadedBudget')
          THEN /\ ldpc' = "attempt"
               /\ loadedAttempts' = 1
          ELSE \* the loop body is never entered: return { success: false }
               /\ ldpc' = "exhausted"
               /\ loadedAttempts' = loadedAttempts
    /\ UNCHANGED <<rawStep, loadErrors, loadedStep>>

NextLoader ==
    \/ LoadStep
    \/ ExecuteLoadedStep

SpecLoader == InitLoader /\ [][NextLoader]_vars

(***************************************************************************)
(* Observer.ts: the captured console and network errors, as the agent's    *)
(* step loop uses them                                                     *)
(***************************************************************************)
\* A JavaScript array is an object: the Observer's fields and the fields of
\* a returned PageObservation hold references into the heap, so that a copy
\* ([...list]) and the list itself are different things.
\* new array with the given elements: the heap grown by one, and its reference
NewArray(h, elements) == [heap |-> Append(h, elements), ref |-> Len(h) + 1]

\* array.push(element)
Push(h, ref, element) == [h EXCEPT ![ref] = Append(@, element)]

\* what the page emits: console messages of type error and log, an uncaught
\* exception, a failed request, responses below and from 400
PageEvents ==
    {[kind |-> "console", type |-> "error", text |-> "e1",
      status |-> NoStatus, error |-> NoText],
     [kind |-> "console", type |-> "log", text |-> "l1",
      status |-> NoStatus, error |-> NoText],
     [kind |-> "pageerror", type |-> "", text |-> "boom",
      status |-> NoStatus, error |-> NoText],
     [kind |-> "requestfailed", type |-> "", text |-> "",
      status |-> NoStatus, error |-> {"net::"}]}
    \cup [kind : {"response"}, type : {""}, text : {""}, status : {399, 400},
          error : {NoText}]

\* the console listener of lines 44-48 and the pageerror listener of 51-53
OnConsole(h, ref, event) ==
    IF event.kind = "console" /\ event.type = "error"
    THEN Push(h, ref, event.text)
    ELSE IF event.kind = "pageerror"
    THEN Push(h, ref, "Uncaught: " \o event.text)
    ELSE h

\* the requestfailed listener of lines 56-62 and the response listener of
\* lines 65-73
OnNetwork(h, ref, event) ==
    IF event.kind = "requestfailed"
    THEN Push(h, ref, [status |-> NoStatus, error |-> event.error])
    ELSE IF event.kind = "response" /\ event.status >= 400
    THEN Push(h, ref, [status |-> event.status, error |-> NoText])
    ELSE h

\* variant: getConsoleErrors returns the list itself
GetConsoleErrors_NoCopy(h, ref) == [heap |-> h, ref |-> ref]

\* getConsoleErrors, lines 89-91: [...this.consoleErrors]
GetConsoleErrors(h, ref) == NewArray(h, h[ref])

\* getNetworkErrors, lines 96-98: [...this.networkErrors]
GetNetworkErrors(h, ref) == NewArray(h, h[ref])

\* history: nothing captured in the current step yet
NothingCaptured == [console |-> <<>>, network |-> <<>>]

\* new Observer(browser), lines 27-29, then runScenario up to its loop
InitObserver ==
    /\ scenario = [numSteps |-> 0, setup |-> NoSetup]
    /\ pc = "off"
    /\ InitAgentState
    /\ InitLocals
    /\ RunOff
    /\ HealOff
    /\ SelectOff
    /\ DetectOff
    /\ ActionsOff
    /\ LoggerOff
    /\ ValidatorOff
    /\ LoaderOff
    /\ ExecutorOff
    /\ opc = "new"
    /\ listenersInitialized = FALSE
    /\ heap = << <<>>, <<>> >>
    /\ consoleErrors = 1
    /\ networkErrors = 2
    /\ observations = <<>>
    /\ stepNo = 0
    /\ attemptNo = 0
    /\ captured = NothingCaptured
    /\ obsHist = [events |-> 0, clears |-> 0]

\* initializeListeners, lines 40-76, called by runScenario at line 142
InitializeListeners ==
    /\ UNCHANGED <<scenario, agentVars, runVars, healVars, selVars, detVars, actVars, logVars, valVars, loadVars, execVars>>
    /\ opc = "new"
    /\ listenersInitialized' = TRUE
    /\ opc' = "for"
    /\ UNCHANGED <<heap, consoleErrors, networkErrors, observations, stepNo,
                   attemptNo, captured, obsHist>>

\* the page emits an event while the agent awaits something: the listeners
\* run (they are registered once listenersInitialized is set)
PageEvent ==
    /\ UNCHANGED <<scenario, agentVars, runVars, healVars, selVars, detVars, actVars, logVars, valVars, loadVars, execVars>>
    /\ opc \in {"new", "for", "attempt", "observing", "observed"}
    /\ obsHist.events < MaxEvents
    /\ \E event \in PageEvents :
          LET h1 == IF listenersInitialized
                    THEN OnConsole(heap, consoleErrors, event) ELSE heap
              h2 == IF listenersInitialized
                    THEN OnNetwork(h1, networkErrors, event) ELSE h1
          IN  /\ heap' = h2
              /\ captured' =
                   [console |-> captured.console
                        \o SubSeq(h2[consoleErrors], Len(heap[consoleErrors]) + 1,
                                  Len(h2[consoleErrors])),
                    network |-> captured.network
                        \o SubSeq(h2[networkErrors], Len(heap[networkErrors]) + 1,
                                  Len(h2[networkErrors]))]
    /\ obsHist' = [obsHist EXCEPT !.events = @ + 1]
    /\ UNCHANGED <<opc, listenersInitialized, consoleErrors, networkErrors,
                   observations, stepNo, attemptNo>>

\* the arrays that a returned observation refers to
Observed ==
    { observations[k].consoleErrors : k \in 1..Len(observations) }
      \cup { observations[k].networkErrors : k \in 1..Len(observations) }

\* garbage collection: an array that nothing refers to any more has no
\* content that anything could read
Collect(h, live) == [r \in DOMAIN h |-> IF r \in live THEN h[r] ELSE <<>>]

\* clearErrors, lines 81-84: both fields are given a new empty array
ClearErrors(h) ==
    LET c == NewArray(h, <<>>)
        n == NewArray(c.heap, <<>>)
    IN  [heap |-> n.heap, console |-> c.ref, network |-> n.ref]

\* runScenario lines 151-159: the next step begins; clearErrors, then
\* executeStep and its first attempt
BeginStep ==
    /\ UNCHANGED <<scenario, agentVars, runVars, healVars, selVars, detVars, actVars, logVars, valVars, loadVars, execVars>>
    /\ opc = "for"
    /\ stepNo < MaxSteps
    /\ LET cleared == ClearErrors(heap)
       IN  /\ heap' = Collect(cleared.heap,
                             Observed \cup {cleared.console, cleared.network})
           /\ consoleErrors' = cleared.console
           /\ networkErrors' = cleared.network
    /\ stepNo' = stepNo + 1
    /\ attemptNo' = 1
    /\ captured' = NothingCaptured
    /\ obsHist' = [obsHist EXCEPT !.clears = @ + 1]
    /\ opc' = "attempt"
    /\ UNCHANGED <<listenersInitialized, observations>>

\* observe, lines 103-143: the listeners are set up if they were not; the
\* extraction, the screenshot and the title are awaited
ObserveCall ==
    /\ UNCHANGED <<scenario, agentVars, runVars, healVars, selVars, detVars, actVars, logVars, valVars, loadVars, execVars>>
    /\ opc \in {"attempt", "observed"}
    /\ Len(observations) < MaxObservations
    /\ listenersInitialized' = TRUE
    /\ opc' = "observing"
    /\ UNCHANGED <<heap, consoleErrors, networkErrors,
                   observations, stepNo, attemptNo, captured, obsHist>>

\* observe, lines 145-159: the observation is built (both lists are read
\* with no await between them) and returned; or one of the awaited calls
\* rejected
ObserveReturn ==
    /\ UNCHANGED <<scenario, agentVars, runVars, healVars, selVars, detVars, actVars, logVars, valVars, loadVars, execVars>>
    /\ opc = "observing"
    /\ \/ LET c == GetConsoleErrors(heap, consoleErrors)
              n == GetNetworkErrors(c.heap, networkErrors)
          IN  /\ heap' = n.heap
              /\ observations' =
                   Append(observations,
                          [consoleErrors |-> c.ref, networkErrors |-> n.ref,
                           step |-> stepNo, attempt |-> attemptNo])
              /\ opc' = "observed"
       \/ /\ opc' = "attempt"
          /\ UNCHANGED <<heap, observations>>
    /\ UNCHANGED <<listenersInitialized, consoleErrors, networkErrors, stepNo,
                   attemptNo, captured, obsHist>>

\* variant: the errors are cleared before a new attempt too
NextAttemptLists_Cleared(h) == ClearErrors(h)

\* executeStep lines 237-239: a failed attempt is followed by the next one;
\* nothing touches the lists
NextAttemptLists(h) ==
    [heap |-> h, console |-> consoleErrors, network |-> networkErrors]

\* executeStep: the attempt failed and attempts remain
NextAttempt ==
    /\ UNCHANGED <<scenario, agentVars, runVars, healVars, selVars, detVars, actVars, logVars, valVars, loadVars, execVars>>
    /\ opc \in {"attempt", "observed"}
    /\ attemptNo < MaxObservedAttempts
    /\ LET lists == NextAttemptLists(heap)
       IN  /\ heap' = Collect(lists.heap,
                             Observed \cup {lists.console, lists.network})
           /\ consoleErrors' = lists.console
           /\ networkErrors' = lists.network
    /\ attemptNo' = attemptNo + 1
    /\ opc' = "attempt"
    /\ UNCHANGED <<listenersInitialized, observations, stepNo, captured, obsHist>>

\* executeStep returns (passed, or failed for good): back to the loop
EndStep ==
    /\ UNCHANGED <<scenario, agentVars, runVars, healVars, selVars, detVars, actVars, logVars, valVars, loadVars, execVars>>
    /\ opc \in {"attempt", "observed"}
    /\ opc' = "for"
    /\ attemptNo' = 0
    /\ UNCHANGED <<listenersInitialized, heap, consoleErrors, networkErrors,
                   observations, stepNo, captured, obsHist>>

NextObserver ==
    \/ InitializeListeners
    \/ PageEvent
    \/ BeginStep
    \/ ObserveCall
    \/ ObserveReturn
    \/ NextAttempt
    \/ EndStep

SpecObserver == InitObserver /\ [][NextObserver]_vars

(***************************************************************************)
(* Executor.execute                                                        *)
(***************************************************************************)
\* PlannedAction as far as execute reads it: the type (one of them unknown
\* to executeAction), whether a value is given, whether waitAfter is given
ExecutableActions ==
    [type : {"click", "fill", "navigate", "drag"}, value : BOOLEAN,
     waitAfter : BOOLEAN]

\* what a rejected call throws: an Error with a message, or a value that is
\* no Error (a string)
Thrown ==
    {[isError |-> TRUE, message |-> "Timeout 30000ms exceeded", value |-> ""],
     [isError |-> TRUE, message |-> "", value |-> ""],
     [isError |-> FALSE, message |-> "", value |-> "closed"]}

\* new Error(message)
NewError(message) == [isError |-> TRUE, message |-> message, value |-> ""]

\* the optional fields error and screenshot of an ExecutedAction
Absent == [defined |-> FALSE, text |-> ""]
Present(text) == [defined |-> TRUE, text |-> text]

\* line 91: err instanceof Error ? err.message : String(err)
ErrorText(err) ==
    IF err.isError THEN Present(err.message) ELSE Present(err.value)

\* the locals of lines 73-76
InitExecLocals == [success |-> FALSE, error |-> Absent, screenshot |-> Absent]

\* history: the stages of the try block completed, the stage that threw
NoStage == "none"
NothingThrown == [isError |-> FALSE, message |-> "", value |-> ""]
InitExecHist ==
    [completed |-> <<>>, failedAt |-> NoStage, thrown |-> NothingThrown,
     screenshotFailed |-> FALSE]

\* a call of execute(action, observation)
InitExecutor ==
    /\ scenario = [numSteps |-> 0, setup |-> NoSetup]
    /\ pc = "off"
    /\ InitAgentState
    /\ InitLocals
    /\ RunOff
    /\ HealOff
    /\ SelectOff
    /\ DetectOff
    /\ ActionsOff
    /\ LoggerOff
    /\ ValidatorOff
    /\ LoaderOff
    /\ ObserverOff
    /\ epc = "resolve"
    /\ execAction \in ExecutableActions
    /\ execLocals = InitExecLocals
    /\ execResult = NoResult
    /\ execHist = InitExecHist

\* a stage of the try block threw: control goes to the catch of line 90
ExecThrow(stage, err) ==
    /\ epc' = "catch"
    /\ execLocals' = [execLocals EXCEPT !.error = ErrorText(err)]
    /\ execHist' = [execHist EXCEPT !.failedAt = stage, !.thrown = err]

\* a stage of the try block completed
ExecPass(stage, next) ==
    /\ epc' = next
    /\ execLocals' = execLocals
    /\ execHist' = [execHist EXCEPT !.completed = Append(@, stage)]

\* line 80: resolveSelector returns a selector or throws
ResolveSelector ==
    /\ UNCHANGED <<scenario, agentVars, runVars, healVars, selVars, detVars, actVars, logVars, valVars, loadVars, obsVars>>
    /\ epc = "resolve"
    /\ \/ ExecPass("resolve", "apply")
       \/ \E err \in Thrown : ExecThrow("resolve", err)
    /\ UNCHANGED <<execAction, execResult>>

\* executeAction, lines 171-238: an unknown type and a missing value throw;
\* otherwise the browser applies the action or rejects
ExecuteActionOfType ==
    /\ UNCHANGED <<scenario, agentVars, runVars, healVars, selVars, detVars, actVars, logVars, valVars, loadVars, obsVars>>
    /\ epc = "apply"
    /\ IF execAction.type = "drag"
       THEN ExecThrow("apply", NewError("Unknown action type"))
       ELSE IF execAction.type \in {"fill", "navigate"} /\ ~execAction.value
       THEN ExecThrow("apply", NewError("requires a value"))
       ELSE \/ ExecPass("apply", "wait")
            \/ \E err \in Thrown : ExecThrow("apply", err)
    /\ UNCHANGED <<execAction, execResult>>

\* lines 86-90: the wait condition, if one is given, then success = true
WaitAfterAction ==
    /\ UNCHANGED <<scenario, agentVars, runVars, healVars, selVars, detVars, actVars, logVars, valVars, loadVars, obsVars>>
    /\ epc = "wait"
    /\ \/ /\ epc' = "return"
          /\ execLocals' = [execLocals EXCEPT !.success = TRUE]
          /\ execHist' = [execHist EXCEPT !.completed =
                            IF execAction.waitAfter THEN Append(@, "wait") ELSE @]
       \/ /\ execAction.waitAfter
          /\ \E err \in Thrown : ExecThrow("wait", err)
    /\ UNCHANGED <<execAction, execResult>>

\* variant: the screenshot is taken without a try of its own
AfterScreenshot_Unguarded(rejected) == IF rejected THEN "threw" ELSE "return"

\* lines 93-97: whatever the screenshot call does, control reaches line 100
AfterScreenshot(rejected) == "return"

\* lines 90-98: the catch block takes a screenshot
CatchAndScreenshot ==
    /\ UNCHANGED <<scenario, agentVars, runVars, healVars, selVars, detVars, actVars, logVars, valVars, loadVars, obsVars>>
    /\ epc = "catch"
    /\ \E rejected \in BOOLEAN :
          /\ epc' = AfterScreenshot(rejected)
          /\ execLocals' = [execLocals EXCEPT !.screenshot =
                              IF rejected THEN Absent ELSE Present("base64")]
          /\ execHist' = [execHist EXCEPT !.screenshotFailed = rejected]
    /\ UNCHANGED <<execAction, execResult>>

\* ExecutedAction, lines 102-108
ExecutedActionOf(action, locals) ==
    [plan |-> action, success |-> locals.success, error |-> locals.error,
     screenshot |-> locals.screenshot]

\* lines 100-108: the result is returned
ExecuteReturn ==
    /\ UNCHANGED <<scenario, agentVars, runVars, healVars, selVars, detVars, actVars, logVars, valVars, loadVars, obsVars>>
    /\ epc = "return"
    /\ execResult' = ExecutedActionOf(execAction, execLocals)
    /\ epc' = "returned"
    /\ UNCHANGED <<execAction, execLocals, execHist>>

NextExecutor ==
    \/ ResolveSelector
    \/ ExecuteActionOfType
    \/ WaitAfterAction
    \/ CatchAndScreenshot
    \/ ExecuteReturn

SpecExecutor == InitExecutor /\ [][NextExecutor]_vars

Init ==
    \/ InitAgent \/ InitRun \/ InitHeal \/ InitSelect \/ InitDetect
    \/ InitActions \/ InitLogger \/ InitValidator \/ InitLoader
    \/ InitObserver \/ InitExecutor

Next ==
    \/ NextAgent \/ NextRun \/ NextHeal \/ NextSelect \/ NextDetect
    \/ NextActions \/ NextLogger \/ NextValidator \/ NextLoader
    \/ NextObserver \/ NextExecutor

Spec == Init /\ [][Next]_vars

SpecAgent == InitAgent /\ [][NextAgent]_vars

\* the two places where a healing strategy is applied
SpecHealing == (InitAgent \/ InitHeal) /\ [][NextAgent \/ NextHeal]_vars

(***************************************************************************)
(* Properties of the step runner (Agent.executeStep)                       *)
(***************************************************************************)
\* control positions inside one executeStep call
InStep ==
    pc \in {"while", "observing", "planning", "executing", "validating",
            "catch", "healing", "diagnose", "stepReturned"}

\* control positions inside the try block of an attempt
TryPcs == {"while", "observing", "planning", "executing", "validating"}

\* C1: healing is invoked only after a failed attempt n < B, so at most B-1
\* times per step; a failure of attempt B invokes no healing (none at all
\* when B = 1) and goes to the diagnosis.
C1_HealingOnlyBeforeLastAttempt ==
    InStep =>
      /\ \A n \in hist.step.healedAt : n < Budget
      /\ hist.step.healCalls = Cardinality(hist.step.healedAt)
      /\ hist.step.healCalls <= Budget - 1
      /\ healingAttempts <= Budget - 1
      /\ (pc = "healing" => attempt < Budget)
      /\ (pc = "diagnose" /\ attempt = Budget => attempt \notin hist.step.healedAt)
      /\ (Budget = 1 => hist.step.healCalls = 0)

\* C1 witness: the last attempt of a step with B >= 2 failed after B-1
\* healings and is being diagnosed
C1_Witness ==
    /\ pc = "diagnose"
    /\ Budget >= 2
    /\ attempt = Budget
    /\ hist.step.healCalls = Budget - 1

\* C2: the diagnosis is invoked at most once per step execution: once when
\* the step returns success=false, never when it returns success=true.
C2_DiagnosisAtMostOnce ==
    InStep =>
      /\ hist.step.diagCalls <= 1
      /\ (pc = "stepReturned" =>
            hist.step.diagCalls = (IF stepResult.success THEN 0 ELSE 1))

\* C3: once healing has failed to recover after attempt n, no further
\* attempt is started for the step and the step ends as failed.
C3_NoAttemptAfterFailedHealing ==
    (InStep /\ hist.step.healFailedAt # 0) =>
      /\ attempt = hist.step.healFailedAt
      /\ pc \in {"diagnose", "while", "stepReturned"}
      /\ (pc = "stepReturned" => ~stepResult.success)

\* C4: the step returns success at the first attempt whose validation
\* passes, whatever its number; nothing of the step runs after it and the
\* reported attempts is the number of that attempt.
C4_SuccessAtFirstPassingAttempt ==
    /\ (InStep /\ hist.step.passAt # 0) =>
          /\ pc = "stepReturned"
          /\ stepResult.success
          /\ stepResult.attempts = hist.step.passAt
          /\ hist.step.attemptsBegun = hist.step.passAt
          /\ attempt = hist.step.passAt
    /\ (pc = "stepReturned" /\ stepResult.success) => hist.step.passAt # 0

\* C4 witness: a step succeeded at its second attempt
C4_Witness ==
    /\ pc = "stepReturned"
    /\ stepResult.success
    /\ stepResult.attempts = 2
    /\ hist.step.healCalls = 1

\* C5: a step that returns success=false carries a bug, and a ScenarioResult
\* has as many bugs as failed steps.
C5_FailedStepCarriesBug ==
    /\ (pc = "stepReturned" /\ ~stepResult.success) => stepResult.bug # NoBug
    /\ Len(bugs) = failedSteps
    /\ pc = "done" => Len(result.bugs) = result.failed

\* C5 witness: a scenario returned with a failed and a passed step
C5_Witness ==
    /\ pc = "done"
    /\ result.failed >= 1
    /\ result.passed >= 1

\* C6: runScenario reports success=true iff every step was executed and
\* reported success.
C6_SuccessIffAllStepsPassed ==
    pc = "done" => (result.success <=> result.passed = NumSteps)

\* the steps 0..n-1 in declared order
DeclaredOrder(n) == [k \in 1..n |-> k - 1]

\* C7: runScenario executes every step once, in declared order, whatever
\* failed inside an earlier step (an attempt, a healing, the diagnosis).
C7_EveryStepExecuted ==
    (pc = "done" /\ hist.abortCause \notin {"setup", "logger"}) =>
      hist.started = DeclaredOrder(NumSteps)

\* C9: an exception raised in the try block of an attempt (navigation,
\* observation, planning, execution, validation) reaches the step's catch
\* handler, which records it as lastError and goes on to healing when
\* attempts remain and to the diagnosis otherwise.
C9_AttemptExceptionsAreAttemptFailures ==
    [][ /\ (pc \in TryPcs /\ exc' # exc) => (pc' = "catch" /\ exc' \in ErrTexts)
        /\ (pc = "catch" /\ pc' \in {"healing", "diagnose"}) =>
              /\ lastError' = exc
              /\ pc' = (IF attempt < Budget THEN "healing" ELSE "diagnose")
      ]_vars

\* C9 witness: a timeout raised while validating is in the catch handler
C9_Witness ==
    /\ pc = "catch"
    /\ phase = "validating"
    /\ exc = {"timeout"}

\* C11: logger failures do not affect control flow. In a run whose browser
\* and oracle calls all succeed and whose validations all pass, the run with
\* a working logger passes every step at its first attempt without healing;
\* a run that differs only in logger calls failing must do the same: no
\* attempt fails, no healing is invoked, no step is skipped and the result
\* counts every step as passed.
C11_LoggingDoesNotAffectControlFlow ==
    ~hist.envFailed =>
      /\ pc \notin {"catch", "healing", "diagnose", "scenarioCatch"}
      /\ InStep => (attempt <= 1 /\ hist.step.healCalls = 0)
      /\ pc = "done" =>
            /\ hist.started = DeclaredOrder(NumSteps)
            /\ result = ScenarioResult(NumSteps, 0, <<>>)

(***************************************************************************)
(* Properties of executeScenario (the run command's step loop)             *)
(***************************************************************************)
\* executeScenario has stopped before the last step of the scenario
StoppedEarly == rpc = "returned" /\ Len(results) < NumSteps

\* the result recorded last
LastResult == results[Len(results)]

\* C8 (as stated): with the bail flag set the scenario stops at the first
\* step that fails with its attempt budget exhausted; no later step is
\* started, the earlier steps ran in order; without the flag the loop never
\* stops early because of a failed step.
C8_BailStopsAtExhaustedBudget ==
    /\ \A k \in 1..Len(results) : results[k].index = k - 1
    /\ (options.bail /\ StoppedEarly) =>
          /\ Len(results) >= 1
          /\ ~LastResult.passed
          /\ LastResult.tries >= MaxAttempts(LastResult)
    /\ (~options.bail /\ rpc = "returned") => Len(results) = NumSteps

\* C8 (amended): with the bail flag set executeScenario stops at the first
\* step that fails its single attempt, whatever step.maxAttempts is: the
\* results are those of steps 0..k in order, every step before the last
\* recorded one passed, and no step is started after a failed one; without
\* the flag executeScenario returns only after every step has a result.
C8_BailStopsAtFirstFailedStep ==
    /\ \A k \in 1..Len(results) : results[k].index = k - 1 /\ results[k].tries = 1
    /\ stepIdx \in {Len(results), Len(results) - 1}
    /\ options.bail =>
          /\ \A k \in 1..(Len(results) - 1) : results[k].passed
          /\ (Len(results) >= 1 /\ ~LastResult.passed) =>
                (rpc = "returned" /\ stepIdx = Len(results) - 1)
    /\ (options.bail /\ StoppedEarly) => (Len(results) >= 1 /\ ~LastResult.passed)
    /\ (~options.bail /\ rpc = "returned") => Len(results) = NumSteps

\* C8 witness: with bail set, the second of three steps failed its only
\* attempt with a budget of 3 and the third step was never started
C8_Witness ==
    /\ options.bail
    /\ rpc = "returned"
    /\ NumSteps = 3
    /\ Len(results) = 2
    /\ results[1].passed
    /\ ~results[2].passed
    /\ MaxAttempts(results[2]) = 3

\* C8 witness without the flag: a failed step was followed by a later step
C8_WitnessNoBail ==
    /\ ~options.bail
    /\ rpc = "returned"
    /\ Len(results) = 3
    /\ ~results[1].passed

(***************************************************************************)
(* Properties of the healing code (SelfHealer.attemptRecovery and          *)
(* Agent.handleStepFailure)                                                *)
(***************************************************************************)
\* C10: applying a healing strategy never throws. attemptRecovery returns,
\* and when a call inside the strategy threw it returns success=false with
\* the exception's message; handleStepFailure returns false in that case,
\* so the step runner goes on to the diagnosis of the same attempt.
C10_HealingNeverThrows ==
    [][ /\ hpc = "call" =>
              /\ hpc' = "returned"
              /\ StrategyThrows(context, answers') # NoError =>
                    /\ ~recovery'.success
                    /\ recovery'.message =
                          Message("Recovery failed", StrategyThrows(context, answers'))
        /\ pc = "healing" =>
              /\ pc' \in {"while", "diagnose"}
              /\ attempt' = attempt
              /\ hist'.step.healThrew => pc' = "diagnose"
      ]_vars

\* C10 witness (SelfHealer): a refresh whose reload threw returned a failure
C10_Witness ==
    /\ hpc = "returned"
    /\ context.strategy = "refresh_and_retry"
    /\ answers.thrown = {"timeout"}
    /\ ~recovery.success

\* C10 witness (Agent): a healing that threw is followed by the diagnosis
C10_WitnessAgent ==
    /\ pc = "diagnose"
    /\ hist.step.healThrew
    /\ attempt < Budget

\* a wait_and_retry invocation has returned
WaitAndRetryReturned ==
    hpc = "returned" /\ context.strategy = "wait_and_retry"

\* C19 (as stated): a wait_and_retry invocation always returns success=true.
C19_WaitAndRetryAlwaysSucceeds ==
    WaitAndRetryReturned => recovery.success

\* C19 (amended): a wait_and_retry invocation returns success=true with a
\* fresh observation whether loading indicators were never detected,
\* detected once or still present at the re-check, and whether or not the
\* network-idle wait timed out, unless one of its other awaited calls
\* (waitForTimeout, observe) throws: then it returns success=false with the
\* message "Recovery failed: ...".
C19_WaitAndRetrySucceedsUnlessThrown ==
    WaitAndRetryReturned =>
      /\ recovery.success <=> answers.thrown = NoError
      /\ recovery.success => recovery.newObservation = "fresh"
      /\ ~recovery.success =>
            recovery.message = Message("Recovery failed", answers.thrown)

\* C19 witness: the network-idle wait timed out, loading indicators were
\* still present at the re-check, and the invocation returned success
C19_Witness ==
    /\ WaitAndRetryReturned
    /\ answers.netIdleThrows
    /\ answers.loading = 2
    /\ answers.thrown = NoError
    /\ recovery.success

(***************************************************************************)
(* Properties of the strategy selection                                    *)
(***************************************************************************)
\* a selector has returned
Selected == spc \in {"healer", "agent"}

\* the lower-cased text contains one of the given phrases
ContainsAny(message, phrases) ==
    \E phrase \in phrases : phrase \in ToLowerCase(message)

\* C12: both selectors ignore the error text outside attempt 2: they return
\* wait_and_retry for attempt 1 and reset_to_known_state for every attempt
\* number >= 3, whatever the error text.
C12_TextIgnoredOutsideAttemptTwo ==
    Selected =>
      /\ selectArgs.attempt = 1 => selected = "wait_and_retry"
      /\ selectArgs.attempt >= 3 => selected = "reset_to_known_state"

\* C12 witness: selectStrategy returned reset_to_known_state for attempt 4
\* and an error text that, at attempt 2, selects alternative_selector
C12_Witness ==
    /\ spc = "healer"
    /\ selectArgs.attempt = 4
    /\ selectArgs.error = {"timeout", "network"}
    /\ selected = "reset_to_known_state"

\* C13: at attempt 2 SelfHealer.selectStrategy returns alternative_selector
\* if the lower-cased text contains "timeout", "not found", "no element" or
\* "locator"; otherwise refresh_and_retry if it contains "network",
\* "loading", "hydrat" or "navigation"; otherwise screenshot_analysis. A text
\* matching both groups yields alternative_selector; case does not matter.
C13_PrecedenceAtAttemptTwo ==
    (spc = "healer" /\ selectArgs.attempt = 2) =>
      selected =
        (IF ContainsAny(selectArgs.error,
                        {"timeout", "not found", "no element", "locator"})
         THEN "alternative_selector"
         ELSE IF ContainsAny(selectArgs.error,
                             {"network", "loading", "hydrat", "navigation"})
         THEN "refresh_and_retry"
         ELSE "screenshot_analysis")

\* C13 witness: a text matching both groups, one of them in upper case,
\* selected alternative_selector
C13_Witness ==
    /\ spc = "healer"
    /\ selectArgs.attempt = 2
    /\ selectArgs.error = {"NETWORK", "Locator"}
    /\ selected = "alternative_selector"

(***************************************************************************)
(* Properties of the failure classification (BugDetector)                  *)
(***************************************************************************)
\* diagnose has just evaluated the heuristics: it is about to ask the
\* oracle, or it has returned the bug built from them
Analyzed ==
    dpc = "oracle" \/ (dpc = "returned" /\ ~oracleAnswer.consulted)

\* the scores of the three detectors on the context being diagnosed
Scores ==
    LET errorMessage == ToLowerCase(diagContext.error)
        observation == diagContext.observation
    IN  [app |-> DetectAppBugIndicators(observation, errorMessage).score,
         agent |-> DetectAgentBugIndicators(observation, errorMessage).score,
         env |-> DetectEnvironmentIndicators(observation, errorMessage).score]

\* the sum and the largest of three scores
Total(s) == s.app + s.agent + s.env
Top(s) ==
    CHOOSE m \in {s.app, s.agent, s.env} :
        \A other \in {s.app, s.agent, s.env} : m >= other

\* C14: when a signal fired, the heuristic confidence is
\* max(app, agent, env) / (app + agent + env + 1) and the classification is
\* the first of app_bug, agent_bug, environment_issue whose score is the
\* maximum.
C14_ConfidenceAndTieOrder ==
    Analyzed =>
      LET s == Scores
          top == Top(s)
      IN  Total(s) > 0 =>
            /\ heuristic.confidence.num * (Total(s) + 1)
                  = top * heuristic.confidence.den
            /\ heuristic.confidence.den > 0
            /\ heuristic.classification =
                  (IF s.app = top THEN "app_bug"
                   ELSE IF s.agent = top THEN "agent_bug"
                   ELSE "environment_issue")

\* C14 witness: application and agent scores both 2 (a JavaScript console
\* error, a timeout without loading indicator) were classified app_bug with
\* confidence 2/5
C14_Witness ==
    /\ Analyzed
    /\ heuristic.classification = "app_bug"
    /\ heuristic.confidence = Ratio(2, 5)
    /\ Scores = [app |-> 2, agent |-> 2, env |-> 0]

\* C15: when no signal of any detector fires, the heuristic classification
\* is unknown, its confidence exactly 0 and its indicator list empty.
C15_NoSignalIsUnknown ==
    (Analyzed /\ Total(Scores) = 0) =>
      /\ heuristic.classification = "unknown"
      /\ heuristic.confidence.num = 0
      /\ heuristic.indicators = <<>>

\* C15 witness: an error without key phrase on a page whose only network
\* error has status 600 was analysed
C15_Witness ==
    /\ Analyzed
    /\ diagContext.error = {"failed"}
    /\ Len(diagContext.observation.networkErrors) = 1
    /\ diagContext.observation.networkErrors[1].status = 600
    /\ diagContext.observation.consoleErrors = <<>>
    /\ heuristic.classification = "unknown"

\* C16: the confidence of every DetectedBug returned by diagnose lies in
\* [0,1], from heuristics and from the oracle alike.
C16_ConfidenceInUnitInterval ==
    dpc = "returned" =>
      /\ 0 <= detected.confidence.num
      /\ detected.confidence.num <= detected.confidence.den

\* C17: the bug is built from the heuristics iff their confidence is at
\* least 0.8; otherwise the oracle is consulted, the returned bug keeps the
\* oracle's classification and the indicators are appended to the oracle's
\* description exactly when an indicator fired and the heuristic confidence
\* is at least 0.3.
C17_HeuristicsOnlyWhenConfident ==
    /\ (dpc \in {"returned", "threw"}) =>
          (oracleAnswer.consulted
             <=> 10 * heuristic.confidence.num < 8 * heuristic.confidence.den)
    /\ dpc = "oracle" =>
          10 * heuristic.confidence.num < 8 * heuristic.confidence.den
    /\ (dpc = "returned" /\ ~oracleAnswer.consulted) =>
          /\ detected.classification = heuristic.classification
          /\ detected.confidence = heuristic.confidence
    /\ (dpc = "returned" /\ oracleAnswer.consulted) =>
          /\ detected.classification = oracleAnswer.bug.classification
          /\ detected.confidence = oracleAnswer.bug.confidence
          /\ detected.description =
                (IF /\ Len(heuristic.indicators) >= 1
                    /\ 10 * heuristic.confidence.num >= 3 * heuristic.confidence.den
                 THEN oracleAnswer.bug.description \o <<"Heuristic indicators:">>
                        \o heuristic.indicators
                 ELSE oracleAnswer.bug.description)

\* C17 witness: heuristics said app_bug with confidence 3/4, the oracle
\* said agent_bug; the bug is an agent_bug with the indicator appended
C17_Witness ==
    /\ dpc = "returned"
    /\ oracleAnswer.consulted
    /\ heuristic.classification = "app_bug"
    /\ heuristic.confidence = Ratio(3, 4)
    /\ detected.classification = "agent_bug"
    /\ Len(detected.description) = 3

\* C17 witness (heuristics): a bug was built from heuristics of confidence
\* exactly 4/5 without consulting the oracle
C17_WitnessHeuristics ==
    /\ dpc = "returned"
    /\ ~oracleAnswer.consulted
    /\ heuristic.confidence = Ratio(4, 5)

\* C18: every DetectedBug returned by diagnose, from heuristics or from the
\* oracle, has a non-empty reproductionSteps list and the url of the
\* Observation that was passed in.
C18_ReproductionStepsAndUrl ==
    dpc = "returned" =>
      /\ Len(detected.reproductionSteps) > 0
      /\ detected.url = diagContext.observation.url

\* the observation holds a network error with a status in 500..599
HasServerError ==
    \E k \in 1..Len(diagContext.observation.networkErrors) :
        diagContext.observation.networkErrors[k].status \in 500..599

\* C20: an Observation with a network error of status 500..599 scores at
\* least 3 for the application category and reports the indicator
\* "Server errors (5xx)"; when that is the only signal, the classification
\* is app_bug.
C20_ServerErrorMeansAppBug ==
    (Analyzed /\ HasServerError) =>
      /\ Scores.app >= 3
      /\ \E k \in 1..Len(heuristic.indicators) :
             heuristic.indicators[k] = "Server errors (5xx)"
      /\ Len(heuristic.indicators) = 1 => heuristic.classification = "app_bug"

\* C20 witness: a single network error of status 500 was the only signal
C20_Witness ==
    /\ Analyzed
    /\ diagContext.observation.networkErrors = <<[status |-> 500, error |-> NoText]>>
    /\ heuristic.indicators = <<"Server errors (5xx)">>
    /\ heuristic.classification = "app_bug"
    /\ heuristic.confidence = Ratio(3, 4)

(***************************************************************************)
(* Scenario setup                                                          *)
(***************************************************************************)
\* C21: when the scenario's setup declares an auth session file, the session
\* has been restored by the time the first step is started, whether or not
\* the setup also declares preconditions.
C21_SessionRestoredBeforeFirstStep ==
    (scenario.setup.sessionFile /\ hist.started # <<>>) => hist.sessionLoaded

(***************************************************************************)
(* Properties of the action history                                        *)
(***************************************************************************)
\* executeActions is running or has just ended
InActions == apc \in {"loop", "returned", "actionFailed", "loggerThrew"}

\* the descriptions of the results rs, in their order
Descriptions(rs) == [k \in 1..Len(rs) |-> ActionDesc(rs[k].plan)]

AppendedSincePlan ==
    IF apc = "loggerThrew" THEN Len(executed) - 1 ELSE Len(executed)

\* the action history as it was at the last call of plan
HistoryAtPlan ==
    SubSeq(actionHistory, 1, Len(actionHistory) - AppendedSincePlan)

\* s is the last min(limit, Len(full)) entries of full, in the same order
IsTail(s, full, limit) ==
    LET n == Len(full)
        m == IF n < limit THEN n ELSE limit
    IN  /\ Len(s) = m
        /\ \A k \in 1..m : s[k] = full[n - m + k]

\* C28: the planning context given to the oracle is the most recent
\* min(10, n) recorded action descriptions in recording order, n being the
\* number recorded so far; and after any sequence of logAction calls the
\* logger's recent-action list has at most 10 entries and is the tail of
\* its full action list.
C28_PlanningContextIsLastTen ==
    /\ (apc # "off" /\ previousActions # NoResult) =>
          IsTail(previousActions, HistoryAtPlan, 10)
    /\ lpc # "off" =>
          /\ Len(recentActions) <= 10
          /\ IsTail(recentActions, allActions, 10)

\* C28 witness: plan was called with more than 10 descriptions recorded, the
\* oldest being a precondition, which is not part of the planning context
C28_Witness ==
    /\ apc = "loop"
    /\ Len(HistoryAtPlan) > 10
    /\ HistoryAtPlan[1] = PreconditionDesc("logged in")
    /\ Len(previousActions) = 10
    /\ previousActions[1] # HistoryAtPlan[1]

\* C28 witness (logger): an eleventh action was logged
C28_WitnessLogger ==
    /\ lpc = "step"
    /\ Len(allActions) = 11
    /\ Len(recentActions) = 10
    /\ allActions[1] # allActions[2]

(***************************************************************************)
(* Properties of Validator.validate                                        *)
(***************************************************************************)
\* the positions of the declared assertions that do not hold on the
\* after-observation
FailingAssertions ==
    { k \in 1..Len(request.assertions) :
        ~CheckAssertion(request.assertions[k], request.afterObservation).passed }

\* C23: validation evaluates every declared assertion against the
\* after-observation; the oracle's semantic check is invoked iff no assertion
\* failed (also when none is declared); the result is passed=true exactly
\* when all assertions passed and the semantic check passed.
C23_AssertionsThenSemanticCheck ==
    vpc \in {"returned", "threw"} =>
      /\ semantic.consulted <=> FailingAssertions = {}
      /\ vpc = "returned" =>
            /\ validation.passed <=> (FailingAssertions = {} /\ semantic.passed)
            /\ FailingAssertions # {} =>
                  Len(validation.failures) = Cardinality(FailingAssertions)

\* C23 witness: two assertions that held before the actions and fail on the
\* after-observation; the oracle was not asked
C23_Witness ==
    /\ vpc = "returned"
    /\ Len(request.assertions) = 2
    /\ Cardinality(FailingAssertions) = 2
    /\ CheckAssertions(request.assertions, request.beforeObservation) = <<>>
    /\ ~semantic.consulted
    /\ ~validation.passed

\* C23 witness (semantic check): no assertion is declared and the oracle's
\* answer decided
C23_WitnessSemantic ==
    /\ vpc = "returned"
    /\ request.assertions = <<>>
    /\ semantic.consulted
    /\ validation.passed

(***************************************************************************)
(* Properties of the attempt budget                                        *)
(***************************************************************************)
\* v is a number and v >= 1
AtLeastOne(v) == TypeOf(v) = "number" /\ ~v.nan /\ v.value >= 1

\* C25: the budget the step runner uses for a loaded step is
\* step.maxAttempts when set and 3 otherwise; it is at least 1, so the step
\* execution begins at least one attempt.
C25_BudgetAtLeastOne ==
    ldpc \in {"attempt", "exhausted"} =>
      /\ loadedBudget = (IF loadedStep.maxAttempts = Undefined
                         THEN Num(3) ELSE loadedStep.maxAttempts)
      /\ AtLeastOne(loadedBudget)
      /\ ldpc = "attempt"
      /\ loadedAttempts >= 1

(***************************************************************************)
(* Properties of the agent phase                                           *)
(***************************************************************************)
\* the phases of one attempt, in their order
AttemptPhases == <<"observing", "planning", "executing", "validating">>

PhaseIndex(ph) == CHOOSE k \in 1..Len(AttemptPhases) : AttemptPhases[k] = ph

IsAttemptPhase(ph) == \E k \in 1..Len(AttemptPhases) : AttemptPhases[k] = ph

\* C24: within one attempt the phase advances only from observing to
\* planning to executing to validating, none skipped or revisited; healing
\* is entered only when attempts remain, the phase that follows healing is
\* observing of a new attempt, and the phase becomes failed after healing
\* only once the attempt budget is exhausted.
C24_PhasesAreSequential ==
    [][ /\ (IsAttemptPhase(phase) /\ IsAttemptPhase(phase') /\ phase' # phase) =>
              /\ PhaseIndex(phase') = PhaseIndex(phase) + 1
              /\ attempt' = attempt
        /\ (phase' = "healing" /\ phase # "healing") => attempt < Budget
        /\ (phase = "healing" /\ phase' # "healing") =>
              \/ phase' = "observing" /\ attempt' = attempt + 1
              \/ phase' = "failed" /\ attempt >= Budget
      ]_vars

(***************************************************************************)
(* Properties of the strategies that ask the oracle                        *)
(***************************************************************************)
\* a strategy invocation has returned after the oracle gave its plan
OracleGavePlan(strat) ==
    /\ hpc = "returned"
    /\ context.strategy = strat
    /\ answers.thrown = NoError

\* C26: alternative_selector reports success iff the oracle's alternative
\* plan has at least one action; on success it returns that plan and the
\* fresh observation; on an empty plan it reports failure with the fresh
\* observation and no updated plan.
C26_AlternativeSelectorNeedsAnAction ==
    /\ OracleGavePlan("alternative_selector") =>
          /\ recovery.success <=> answers.plan.actions >= 1
          /\ recovery.newObservation = "fresh"
          /\ recovery.updatedPlan =
                (IF answers.plan.actions >= 1 THEN answers.plan ELSE NoPlan)
    /\ (hpc = "returned" /\ context.strategy = "alternative_selector"
          /\ recovery.success) => answers.thrown = NoError

\* C26 witness: the oracle returned an empty plan with a high confidence
\* and the strategy reported failure
C26_Witness ==
    /\ OracleGavePlan("alternative_selector")
    /\ answers.plan.actions = 0
    /\ answers.plan.confidence = 9
    /\ ~recovery.success
    /\ recovery.newObservation = "fresh"

\* C27: screenshot_analysis reports failure exactly when the oracle's
\* recovery plan has no action and a confidence below 0.5 (5 tenths); no
\* action with a confidence of 0.5 or more, or at least one action at any
\* confidence, is a success.
C27_ScreenshotAnalysisFailsOnlyWithoutPlan ==
    /\ OracleGavePlan("screenshot_analysis") =>
          /\ ~recovery.success <=>
                (answers.plan.actions = 0 /\ answers.plan.confidence < 5)
          /\ recovery.success => recovery.updatedPlan = answers.plan
    /\ (hpc = "returned" /\ context.strategy = "screenshot_analysis"
          /\ recovery.success) => answers.thrown = NoError

\* C27 witness: no action at a confidence of exactly 0.5 is a success
C27_Witness ==
    /\ OracleGavePlan("screenshot_analysis")
    /\ answers.plan.actions = 0
    /\ answers.plan.confidence = 5
    /\ recovery.success

\* C27 witness (failure): no action at a confidence of 0.4
C27_WitnessFailure ==
    /\ OracleGavePlan("screenshot_analysis")
    /\ answers.plan.actions = 0
    /\ answers.plan.confidence = 4
    /\ ~recovery.success

(***************************************************************************)
(* Properties of the severity and of the timing signal (BugDetector)       *)
(***************************************************************************)
\* diagnose has returned the bug built from the heuristics alone
BuiltFromHeuristics ==
    dpc = "returned" /\ ~oracleAnswer.consulted

\* one of the indicators named fired on the context being diagnosed
Fired(texts) == SomeIndicator(heuristic.indicators, texts)

\* the severity rules of the application and of the agent categories
SeverityOfAppAndAgentBugs ==
    /\ detected.classification = "app_bug" =>
          IF Fired({"Server errors (5xx)"})
          THEN detected.severity = "critical"
          ELSE detected.severity \in {"high", "medium"}
    /\ detected.classification = "agent_bug" =>
          detected.severity =
            (IF Fired({"Invalid selector syntax"}) THEN "high" ELSE "medium")

\* C29: a bug built directly from the heuristics is critical for app_bug
\* when the 5xx indicator fired, high for agent_bug when the invalid
\* selector indicator fired, high for environment_issue when the
\* authentication (401/403) indicator or a connectivity indicator fired,
\* and not escalated by these rules otherwise.
C29_SeverityEscalatedByIndicators ==
    BuiltFromHeuristics =>
      /\ SeverityOfAppAndAgentBugs
      /\ detected.classification = "environment_issue" =>
            detected.severity =
              (IF Fired({"Authentication errors", "Network connection errors",
                         "Server unreachable or DNS failure"})
               THEN "high" ELSE "medium")

\* C29 (amended): as C29, but an environment_issue is high exactly when a
\* connectivity indicator (network connection errors, server unreachable
\* or DNS failure) fired; the authentication indicator does not escalate.
C29_SeverityEscalatedByConnectivity ==
    BuiltFromHeuristics =>
      /\ SeverityOfAppAndAgentBugs
      /\ detected.classification = "environment_issue" =>
            detected.severity =
              (IF Fired({"Network connection errors",
                         "Server unreachable or DNS failure"})
               THEN "high" ELSE "medium")

\* C29 witness: an environment issue built from the heuristics on a 401
\* response and a certificate error, no connectivity indicator: medium
C29_Witness ==
    /\ BuiltFromHeuristics
    /\ detected.classification = "environment_issue"
    /\ Fired({"Authentication errors"})
    /\ ~Fired({"Network connection errors", "Server unreachable or DNS failure"})
    /\ detected.severity = "medium"

\* C29 witness (escalations): a critical app_bug, a high agent_bug and a
\* high environment_issue are each built from the heuristics
C29_WitnessCritical ==
    /\ BuiltFromHeuristics
    /\ detected.classification = "app_bug"
    /\ Fired({"Server errors (5xx)"})
    /\ detected.severity = "critical"

C29_WitnessAgentHigh ==
    /\ BuiltFromHeuristics
    /\ detected.classification = "agent_bug"
    /\ Fired({"Invalid selector syntax"})
    /\ detected.severity = "high"

C29_WitnessEnvironmentHigh ==
    /\ BuiltFromHeuristics
    /\ detected.classification = "environment_issue"
    /\ Fired({"Server unreachable or DNS failure"})
    /\ detected.severity = "high"

\* the phrases of a timeout-class error
TimeoutPhrases == {"timeout", "waiting for", "timed out"}

\* the error text being diagnosed, in lower case, and the same text with
\* its timeout phrases taken out
LoweredError == ToLowerCase(diagContext.error)
WithoutTimeout == LoweredError \ TimeoutPhrases

\* the agent score of a text on the observation being diagnosed
AgentScore(text) ==
    DetectAgentBugIndicators(diagContext.observation, text).score

\* how many of the indicators that fired are timing indicators
TimingIndicators ==
    Cardinality({ k \in 1..Len(heuristic.indicators) :
                    heuristic.indicators[k] \in
                      {"Timeout without loading indicators",
                       "Timeout with loading indicators"} })

\* C30: a timeout-class error adds exactly 2 to the agent score when no
\* loading indicator is active and exactly 1 when one is, once however
\* many timeout phrases the text has; when nothing else fired the
\* classification is agent_bug with a confidence above zero.
C30_TimeoutCountedOnce ==
    (Analyzed /\ LoweredError \cap TimeoutPhrases # {}) =>
      /\ AgentScore(LoweredError) =
            AgentScore(WithoutTimeout)
              + (IF diagContext.observation.loadingIndicators THEN 1 ELSE 2)
      /\ TimingIndicators = 1
      /\ (Scores.app = 0 /\ Scores.env = 0 /\ AgentScore(WithoutTimeout) = 0) =>
            /\ heuristic.classification = "agent_bug"
            /\ heuristic.confidence.num > 0
            /\ heuristic.confidence =
                  (IF diagContext.observation.loadingIndicators
                   THEN Ratio(1, 2) ELSE Ratio(2, 3))

\* C30 witness: "Timeout ... waiting for ..." with no loading indicator and
\* nothing else fired: agent_bug at 2/3
C30_Witness ==
    /\ Analyzed
    /\ diagContext.error = {"Timeout", "waiting for"}
    /\ ~diagContext.observation.loadingIndicators
    /\ Scores = [app |-> 0, agent |-> 2, env |-> 0]
    /\ heuristic.classification = "agent_bug"
    /\ heuristic.confidence = Ratio(2, 3)

\* C30 witness (loading): the same error with a loading indicator active
C30_WitnessLoading ==
    /\ Analyzed
    /\ diagContext.error = {"Timeout", "waiting for"}
    /\ diagContext.observation.loadingIndicators
    /\ Scores = [app |-> 0, agent |-> 1, env |-> 0]
    /\ heuristic.classification = "agent_bug"

(***************************************************************************)
(* Properties of the heuristic confidence (BugDetector)                    *)
(***************************************************************************)
\* C35: the heuristic confidence max/(total+1) is strictly below 1; the bug
\* is built directly from the heuristics only when
\* 5*max >= 4*(total+1); a failure whose winning score is at most 3 is
\* always passed to the oracle.
C35_ConfidenceBelowOneAndThreshold ==
    Analyzed =>
      /\ heuristic.confidence.num < heuristic.confidence.den
      /\ BuiltFromHeuristics <=> 5 * Top(Scores) >= 4 * (Total(Scores) + 1)
      /\ Top(Scores) <= 3 => dpc = "oracle"

\* C35 witness: a single signal of 3 points (the winning score is the
\* whole total) is passed to the oracle at confidence 3/4
C35_Witness ==
    /\ Analyzed
    /\ Top(Scores) = 3
    /\ Total(Scores) = 3
    /\ heuristic.confidence = Ratio(3, 4)
    /\ dpc = "oracle"

\* C35 witness (threshold): a winning score of 4 out of a total of 4 is
\* exactly 0.8 and is classified directly
C35_WitnessAtThreshold ==
    /\ Analyzed
    /\ Top(Scores) = 4
    /\ Total(Scores) = 4
    /\ BuiltFromHeuristics

(***************************************************************************)
(* The two strategy selectors compared                                     *)
(***************************************************************************)
\* C32: for every error text and attempt number the strategy returned by
\* Agent.selectHealingStrategy, the one the step runner uses, is the one
\* SelfHealer.selectStrategy returns, also for attempt-2 texts containing
\* "locator" or "navigation".
C32_AgentSelectsAsHealerPolicy ==
    spc = "agent" =>
      selected = SelectStrategy(selectArgs.error, selectArgs.attempt)

(***************************************************************************)
(* Properties of the ScenarioResult                                        *)
(***************************************************************************)
\* the scenario-level catch recorded an unexpected error
UnexpectedErrorRecorded ==
    \E k \in 1..Len(errors) : errors[k] = "unexpected"

\* C33: in every ScenarioResult returned by runScenario, steps is the
\* number of steps of the scenario, passed + failed <= steps, with
\* equality when no unexpected error ended the step loop early, and the
\* number of bugs is at most failed.
C33_ResultCountsAreConsistent ==
    pc = "done" =>
      /\ result.steps = NumSteps
      /\ result.passed + result.failed <= result.steps
      /\ ~UnexpectedErrorRecorded => result.passed + result.failed = result.steps
      /\ Len(result.bugs) <= result.failed

\* C33 witness: a result returned after an unexpected error ended the loop
\* with a failed step counted and a step not accounted for
C33_Witness ==
    /\ pc = "done"
    /\ UnexpectedErrorRecorded
    /\ result.failed >= 1
    /\ result.passed + result.failed < result.steps

\* C33 witness (complete run): every step accounted for, one passed, one
\* failed with its bug
C33_WitnessComplete ==
    /\ pc = "done"
    /\ ~UnexpectedErrorRecorded
    /\ result.passed = 1
    /\ result.failed = 1
    /\ Len(result.bugs) = 1

(***************************************************************************)
(* Properties of the captured errors (Observer)                            *)
(***************************************************************************)
\* s is a prefix of full
IsPrefixOf(s, full) ==
    /\ Len(s) <= Len(full)
    /\ \A k \in 1..Len(s) : s[k] = full[k]

\* an observation has just been returned
ObservationReturned == Len(observations') = Len(observations) + 1

\* C31: between calls of clearErrors the captured console and network
\* lists only grow; the agent clears them once before each step and never
\* between attempts of a step; so an Observation taken during a step holds
\* all errors captured since the step began, those of earlier attempts
\* included.
C31_ErrorsAccumulateWithinStep ==
    [][ /\ obsHist'.clears = obsHist.clears =>
              /\ IsPrefixOf(heap[consoleErrors], heap'[consoleErrors'])
              /\ IsPrefixOf(heap[networkErrors], heap'[networkErrors'])
        /\ obsHist'.clears = stepNo'
        /\ stepNo' = stepNo =>
              /\ consoleErrors' = consoleErrors
              /\ networkErrors' = networkErrors
        /\ ObservationReturned =>
              LET o == observations'[Len(observations')]
              IN  /\ heap'[o.consoleErrors] = captured.console
                  /\ heap'[o.networkErrors] = captured.network
      ]_vars

\* C31 witness: an observation of the second attempt of a step holds an
\* error that an observation of its first attempt already held, and one
\* more
C31_Witness ==
    \E a, b \in 1..Len(observations) :
        /\ observations[a].step = observations[b].step
        /\ observations[a].attempt = 1
        /\ observations[b].attempt = 2
        /\ Len(heap[observations[a].networkErrors]) = 1
        /\ Len(heap[observations[b].networkErrors]) = 2
        /\ IsPrefixOf(heap[observations[a].networkErrors],
                      heap[observations[b].networkErrors])

\* C34: the consoleErrors and networkErrors of a returned Observation are
\* copies: no later event and no later clearErrors changes them.
C34_ObservationIsSnapshot ==
    [][ \A k \in 1..Len(observations) :
            /\ observations'[k] = observations[k]
            /\ heap'[observations[k].consoleErrors] =
                  heap[observations[k].consoleErrors]
            /\ heap'[observations[k].networkErrors] =
                  heap[observations[k].networkErrors]
      ]_vars

\* C34 witness: an observation returned with one console error, and the
\* Observer's list has since taken a second one
C34_Witness ==
    \E k \in 1..Len(observations) :
        /\ heap[observations[k].consoleErrors] = <<"e1">>
        /\ heap[consoleErrors] = <<"e1", "Uncaught: boom">>
        /\ observations[k].step = stepNo

\* C34 witness (clear): an observation of the first step keeps its errors
\* after clearErrors has run for the second step
C34_WitnessCleared ==
    \E k \in 1..Len(observations) :
        /\ observations[k].step = 1
        /\ stepNo = 2
        /\ heap[observations[k].consoleErrors] # <<>>
        /\ heap[consoleErrors] = <<>>

(***************************************************************************)
(* Properties of Executor.execute                                          *)
(***************************************************************************)
\* the stages the try block of execute has to complete for this action
StagesOf(action) ==
    IF action.waitAfter THEN <<"resolve", "apply", "wait">>
    ELSE <<"resolve", "apply">>

\* the text of what was thrown
TextThrown ==
    IF execHist.thrown.isError THEN execHist.thrown.message
    ELSE execHist.thrown.value

\* C36: execute never throws: a failure of the target resolution, of the
\* action or of the wait after it is returned as an ExecutedAction with
\* success=false and the error text, also when the failure screenshot
\* fails; success=true is returned only when all those stages completed.
C36_ExecuteNeverThrows ==
    /\ epc # "threw"
    /\ epc = "returned" =>
          /\ execResult.plan = execAction
          /\ execResult.success <=> execHist.completed = StagesOf(execAction)
          /\ execResult.success <=> execHist.failedAt = NoStage
          /\ execResult.success =>
                /\ execResult.error = Absent
                /\ execResult.screenshot = Absent
          /\ ~execResult.success =>
                /\ execResult.error = Present(TextThrown)
                /\ execResult.screenshot.defined <=> ~execHist.screenshotFailed

\* C36 witness: the wait after the action timed out, the failure
\* screenshot failed too, and execute returned success=false with the text
C36_Witness ==
    /\ epc = "returned"
    /\ execHist.failedAt = "wait"
    /\ execHist.screenshotFailed
    /\ ~execResult.success
    /\ execResult.error = Present("Timeout 30000ms exceeded")

\* C36 witness (success): all three stages completed
C36_WitnessSuccess ==
    /\ epc = "returned"
    /\ execHist.completed = <<"resolve", "apply", "wait">>
    /\ execResult.success
====
